---- MODULE Spec2Model ----
(***************************************************************************)
(* A model of the Two Rooms and a Boom game server: the Game aggregate,    *)
(* the state machine, the round engine with its timer manager, the scoped  *)
(* event bus and the game controller.                                      *)
(*                                                                         *)
(* Every handler of the server is an operator from a world record to a     *)
(* world record, written statement by statement after the TypeScript       *)
(* source; an action applies one handler to the current world.  The world  *)
(* holds one game: game ids only key the maps of the store, the bus and    *)
(* the timer manager, and those maps are modelled by their entry for this  *)
(* game.  Player ids (uuids in the source) are the naturals 1, 2, ... in   *)
(* the order they are issued, so the insertion order of the players Map is *)
(* the ascending order of ids.                                             *)
(***************************************************************************)
EXTENDS Integers, Sequences, FiniteSets, TLC

VARIABLES game, bus, timers, console, nextId, connections, store, call, pending

\* connections: the player ids WebSocketServer.connectionsByPlayer has an entry for
\* store: the games and gamesByCode maps of the GameStore, each game by its code
\* call: the arguments and the results of a call of the hostage count helpers
\* pending: the command suspended at an await, with the player who sent it
vars == <<game, bus, timers, console, nextId, connections, store, call, pending>>

----------------------------------------------------------------------------
(* Bounds of the model. *)

\* player ids the lobby scenario issues (one host and the joiners)
MaxPlayers == 6

\* subscriptions the transport establishes in a scenario
MaxSubscriptions == 1

\* LEAVE_GAME commands in a scenario
MaxLeaves == 1

\* the clock is observed every TickMs milliseconds
TickMs == 30000

\* every value crypto.randomBytes yields for a shuffle is in 0..MaxRandom
MaxRandom == 1

\* events published in an election scenario before the last command is taken
MaxElectionEvents == 4

\* events published in a round scenario before the last command is taken
MaxRoundEvents == 5

\* events published beyond the capacity of the journal before the last command
MaxJournalEvents == 1

\* events published in RESOLUTION before the last command is taken
MaxResolutionEvents == 2

\* a paused timer is observed for at most MaxPausedMs milliseconds
MaxPausedMs == 60000

\* players who join a lobby scenario
MaxLobbyJoins == 2

\* events published in an ignition scenario before the last command is taken
MaxIgnitionEvents == 2

\* events published in an ignition scenario before the clock is last observed
MaxIgnitionClockEvents == 6

\* events published in a pause scenario before the last command is taken
MaxPauseEvents == 3

\* events published in a pause scenario before the clock is last observed
MaxPauseClockEvents == 10

\* players of a hostage scenario
HostagePlayers == 11

\* events published in a hostage scenario before the last command is taken
MaxHostageEvents == 3

\* events published in a usurpation scenario before the last command is taken
MaxUsurpEvents == 3

\* players of a role-selection scenario
MaxRolePlayers == 7

\* events published in a last-round scenario before the last command is taken
MaxLateEvents == 4

\* connections associated with a player in a behaviour of the connections
MaxReconnects == 2

\* events a behaviour of the connections publishes
MaxConnectionEvents == 2

\* characters of a room code (6 in the source)
CodeLength == 2

\* characters of the room code alphabet that are drawn (32 in the source)
CodeChars == 2

\* games a behaviour of the store creates
MaxGames == 4

\* round numbers the hostage count helpers are called with
MaxRoundNumber == 5

\* events published by the round commands of a pipelining scenario
MaxPipelineEvents == 1

\* events published in a restart scenario before the last command is taken
MaxRestartEvents == 3

\* events published in a restart scenario before the clock is last observed
MaxRestartClockEvents == 8

\* events published in an abandoned game before the last step is taken
MaxAbandonEvents == 7

----------------------------------------------------------------------------
(* Program constants. *)

Null == 0

MinPlayerCount == 6

MaxPlayerCount == 30

MaxEventLog == 1000

\* generateRoomCode: the attempts after which the store gives up
MaxCodeAttempts == 100

ParlayDuration == 30000

DefaultTotalRounds == 3

DefaultRoundDurations == <<180000, 120000, 60000>>

RoomIds == {"ROOM_A", "ROOM_B"}

OtherRoom(r) == IF r = "ROOM_A" THEN "ROOM_B" ELSE "ROOM_A"

RoundStatuses == {"ROUND_1", "ROUND_2", "ROUND_3", "ROUND_4", "ROUND_5"}

----------------------------------------------------------------------------
(* Arrays, Maps and Records of the source. *)

Range(s) == {s[i] : i \in DOMAIN s}

Includes(s, x) == \E i \in DOMAIN s : s[i] = x

Without(s, x) == SelectSeq(s, LAMBDA y : y # x)

EmptyMap == [x \in {} |-> Null]

Put(f, k, v) == (k :> v) @@ f

Delete(f, k) == [x \in DOMAIN f \ {k} |-> f[x]]

Min(S) == CHOOSE x \in S : \A y \in S : x <= y

Max(S) == CHOOSE x \in S : \A y \in S : x >= y

RECURSIVE Ascending(_)
Ascending(S) == IF S = {} THEN <<>> ELSE <<Min(S)>> \o Ascending(S \ {Min(S)})

\* Array.from(game.players.values()): the Map iterates in insertion order
PlayerList(g) == Ascending(DOMAIN g.players)

Abs(x) == IF x < 0 THEN -x ELSE x

----------------------------------------------------------------------------
(* Event bus (services/EventBus).                                          *)
(* bus.eventLog and bus.sequenceNumber are the entries of this game in the *)
(* maps eventLog and sequenceNumbers; bus.subscriptions is the list of     *)
(* subscriptions of this game, each keyed to a player id; bus.delivered[i] *)
(* is the sequence of events the listener of subscription i was called     *)
(* with.                                                                   *)

PublicScope == [kind |-> "PUBLIC", playerId |-> Null]

RoomScope(roomId) == [kind |-> roomId, playerId |-> Null]

PlayerScope(playerId) == [kind |-> "PLAYER", playerId |-> playerId]

\* the fields of an event payload the model keeps
NoPayload == [characterId |-> "none", playerId |-> Null, info |-> "", n |-> 0]

InitialBus ==
  [eventLog |-> <<>>, sequenceNumber |-> 0, subscriptions |-> <<>>, delivered |-> <<>>]

subscribe(w, playerId) ==
  [w EXCEPT !.bus.subscriptions = Append(@, [playerId |-> playerId]),
            !.bus.delivered = Append(@, <<>>)]

\* a variant of getNextSequenceNumber that skips a number
skippingSequenceNumber(b) == b.sequenceNumber + 2

getNextSequenceNumber(b) == b.sequenceNumber + 1

createEvent(b, type, payload, scope) ==
  [sequenceNumber |-> getNextSequenceNumber(b), type |-> type,
   scope |-> scope, payload |-> payload]

logEvent(log, event) ==
  LET events == Append(log, event)
  IN  IF Len(events) > MaxEventLog THEN Tail(events) ELSE events

\* a variant of shouldReceiveEvent that ignores the scope of the event
shouldReceiveAnyScope(subscription, scope) == TRUE

shouldReceiveEvent(subscription, scope) ==
  IF scope.kind = "PUBLIC" THEN TRUE
  ELSE IF scope.kind = "PLAYER" THEN subscription.playerId = scope.playerId
  ELSE IF scope.kind \in RoomIds THEN TRUE
  ELSE FALSE

\* the delivery loop of broadcast, from subscription i on
RECURSIVE deliver(_, _, _, _)
deliver(delivered, subscriptions, event, i) ==
  IF i > Len(subscriptions) THEN delivered
  ELSE deliver(IF shouldReceiveEvent(subscriptions[i], event.scope)
               THEN [delivered EXCEPT ![i] = Append(@, event)]
               ELSE delivered,
               subscriptions, event, i + 1)

broadcast(w, type, payload, scope) ==
  LET event == createEvent(w.bus, type, payload, scope)
  IN  [w EXCEPT
        !.bus.sequenceNumber = event.sequenceNumber,
        !.bus.eventLog = logEvent(@, event),
        !.bus.delivered = deliver(@, w.bus.subscriptions, event, 1)]

broadcastToPlayer(w, playerId, type, payload) ==
  broadcast(w, type, payload, PlayerScope(playerId))

broadcastToRoom(w, roomId, type, payload) ==
  broadcast(w, type, payload, RoomScope(roomId))

\* the journaled events after sequenceNumber, in journal order
getEventsSince(b, sequenceNumber) ==
  SelectSeq(b.eventLog, LAMBDA e : e.sequenceNumber > sequenceNumber)

----------------------------------------------------------------------------
(* Game state (core/GameState) and game store (services/GameStore). *)

createPlayer(isHost) ==
  [isHost |-> isHost, connectionStatus |-> "CONNECTED",
   currentRole |-> "null", currentRoom |-> "null",
   isLeader |-> FALSE, canBeHostage |-> TRUE, wasSentAsHostage |-> FALSE]

InitialRoom ==
  [players |-> <<>>, leaderId |-> Null, leaderVotes |-> EmptyMap,
   leaderVotingActive |-> FALSE, leaderVotingTieCount |-> 0,
   hostageCandidates |-> <<>>, hostagesLocked |-> FALSE]

\* GameStore.createGame: the Game with createInitialGameState and the host
storeCreateGame(hostId, totalRounds, roundDurations, buryCard) ==
  [inStore |-> TRUE,
   version |-> 0,
   config |-> [totalRounds |-> totalRounds, roundDurations |-> roundDurations,
               buryCard |-> buryCard, selectedRoles |-> <<>>],
   players |-> Put(EmptyMap, hostId, createPlayer(TRUE)),
   status |-> "LOBBY",
   currentRound |-> 0,
   roomAssignments |-> EmptyMap,
   leaders |-> [r \in RoomIds |-> Null],
   timer |-> [duration |-> 0, remaining |-> 0, state |-> "STOPPED"],
   paused |-> FALSE,
   parlayActive |-> FALSE,
   rooms |-> [r \in RoomIds |-> InitialRoom],
   roleAssignments |-> EmptyMap,
   buriedCard |-> "null",
   hostId |-> hostId]

\* the id of the game the world follows; further games get 2, 3, ...
ThisGame == 1

\* generateRoomCode: chars
chars ==
  <<"A", "B", "C", "D", "E", "F", "G", "H", "J", "K", "L", "M", "N", "P", "Q",
    "R", "S", "T", "U", "V", "W", "X", "Y", "Z", "2", "3", "4", "5", "6", "7",
    "8", "9">>

\* the codes generateRoomCode can draw
RoomCodes == [1..CodeLength -> {chars[i] : i \in 1..CodeChars}]

LowerCase ==
  <<"a", "b", "c", "d", "e", "f", "g", "h", "j", "k", "l", "m", "n", "p", "q",
    "r", "s", "t", "u", "v", "w", "x", "y", "z">>

\* String.prototype.toUpperCase, character by character
toUpperCase(code) ==
  [i \in DOMAIN code |->
     IF \E j \in DOMAIN LowerCase : LowerCase[j] = code[i]
     THEN chars[CHOOSE j \in DOMAIN LowerCase : LowerCase[j] = code[i]]
     ELSE code[i]]

\* new GameStore(): both maps empty
InitialStore == [games |-> EmptyMap, gamesByCode |-> EmptyMap, nextGameId |-> ThisGame]

\* generateRoomCode throws
NoCode == <<>>

\* generateRoomCode: draws[i] is the code the i-th pass of the loop builds
RECURSIVE generateRoomCode(_, _, _)
generateRoomCode(st, draws, attempts) ==
  IF attempts + 1 > MaxCodeAttempts THEN NoCode
  ELSE IF draws[attempts + 1] \in DOMAIN st.gamesByCode
       THEN generateRoomCode(st, draws, attempts + 1)
       ELSE draws[attempts + 1]

\* every pass draws the first character six times
ZeroDraws == [i \in 1..(MaxCodeAttempts + 1) |-> [j \in 1..CodeLength |-> chars[1]]]

\* GameStore.createGame: the entries it makes in games and gamesByCode
storeSet(st, draws) ==
  LET code == generateRoomCode(st, draws, 0)
      gameId == st.nextGameId
  IN  IF code = NoCode THEN st
      ELSE [games |-> Put(st.games, gameId, code),
            gamesByCode |-> Put(st.gamesByCode, code, gameId),
            nextGameId |-> gameId + 1]

\* a variant of storeDelete that leaves the code in the index
storeDeleteKeepingCode(st, gameId) ==
  IF gameId \notin DOMAIN st.games THEN st
  ELSE [st EXCEPT !.games = Delete(@, gameId)]

\* GameStore.delete
storeDelete(st, gameId) ==
  IF gameId \notin DOMAIN st.games THEN st
  ELSE [st EXCEPT !.gamesByCode = Delete(@, st.games[gameId]),
                  !.games = Delete(@, gameId)]

\* GameStore.getByCode: the id of the game found, or Null
getByCode(st, code) ==
  LET key == toUpperCase(code)
  IN  IF key \notin DOMAIN st.gamesByCode THEN Null
      ELSE IF st.gamesByCode[key] \notin DOMAIN st.games THEN Null
      ELSE st.gamesByCode[key]

\* a variant of getHostageCount that knows the small games only
hostageCountOfSmallGame(playerCount, roundNumber) == 1

\* ActionValidator.getHostageCount
getHostageCount(playerCount, roundNumber) ==
  IF playerCount >= 6 /\ playerCount <= 10 THEN 1
  ELSE IF playerCount >= 11 /\ playerCount <= 21
       THEN (IF roundNumber = 1 THEN 2 ELSE 1)
  ELSE IF playerCount >= 22
       THEN (IF roundNumber = 1 THEN 3 ELSE IF roundNumber = 2 THEN 2 ELSE 1)
  ELSE 1

\* no command is suspended
NonePending == [at |-> "none", playerId |-> Null]

\* no call of the helpers yet
NoCall == [playerCount |-> 0, roundNumber |-> 0, returned |-> <<>>]

calculateHostageCount(playerCount, roundNumber) ==
  IF playerCount >= 6 /\ playerCount <= 10 THEN 1
  ELSE IF playerCount >= 11 /\ playerCount <= 21
       THEN (IF roundNumber = 1 THEN 2 ELSE 1)
  ELSE IF playerCount >= 22
       THEN (IF roundNumber = 1 THEN 3 ELSE IF roundNumber = 2 THEN 2 ELSE 1)
  ELSE 1

----------------------------------------------------------------------------
(* State machine (core/StateMachine). *)

\* a variant of hostagesExchanged that holds while the hostages are still locked
hostagesStillLocked(g) ==
  /\ g.rooms["ROOM_A"].hostagesLocked
  /\ g.rooms["ROOM_B"].hostagesLocked

hostagesExchanged(g) ==
  /\ Len(g.rooms["ROOM_A"].hostageCandidates) = 0
  /\ Len(g.rooms["ROOM_B"].hostageCandidates) = 0
  /\ ~g.rooms["ROOM_A"].hostagesLocked
  /\ ~g.rooms["ROOM_B"].hostagesLocked

\* a variant of guard that does not look at the number of rounds
guardWithoutRoundCount(name, g) ==
  CASE name = "LOCK_ROOM" ->
         LET playerCount == Cardinality(DOMAIN g.players)
         IN  playerCount >= MinPlayerCount /\ playerCount <= MaxPlayerCount
    [] name = "UNLOCK_ROOM" -> Cardinality(DOMAIN g.roleAssignments) = 0
    [] name = "ROLES_DISTRIBUTED" ->
         Cardinality(DOMAIN g.players) = Cardinality(DOMAIN g.roleAssignments)
    [] name = "START_GAME" ->
         Abs(Len(g.rooms["ROOM_A"].players) - Len(g.rooms["ROOM_B"].players)) <= 1
    [] name \in {"ROUND_COMPLETE", "ROUND_COMPLETE_3", "ROUND_COMPLETE_5"} ->
         hostagesExchanged(g)
    [] OTHER -> TRUE

\* the guard functions of initializeTransitions and addRoundTransitions
guard(name, g) ==
  CASE name = "LOCK_ROOM" ->
         LET playerCount == Cardinality(DOMAIN g.players)
         IN  playerCount >= MinPlayerCount /\ playerCount <= MaxPlayerCount
    [] name = "UNLOCK_ROOM" -> Cardinality(DOMAIN g.roleAssignments) = 0
    [] name = "CONFIRM_ROLES" -> TRUE
    [] name = "ROLES_DISTRIBUTED" ->
         Cardinality(DOMAIN g.players) = Cardinality(DOMAIN g.roleAssignments)
    [] name = "START_GAME" ->
         Abs(Len(g.rooms["ROOM_A"].players) - Len(g.rooms["ROOM_B"].players)) <= 1
    [] name = "ROUND_COMPLETE" -> hostagesExchanged(g)
    [] name = "ROUND_COMPLETE_3" ->
         g.config.totalRounds = 3 /\ hostagesExchanged(g)
    [] name = "ROUND_COMPLETE_5" ->
         g.config.totalRounds = 5 /\ hostagesExchanged(g)
    [] OTHER -> TRUE

T(from, to, trigger, guardName) ==
  [from |-> from, to |-> to, trigger |-> trigger, guard |-> guardName]

\* this.transitions, in the order initializeTransitions adds them
transitions ==
  << T({"LOBBY"}, "LOCKED", "LOCK_ROOM", "LOCK_ROOM"),
     T({"LOCKED"}, "LOBBY", "UNLOCK_ROOM", "UNLOCK_ROOM"),
     T({"LOCKED"}, "ROLE_SELECTION", "START_ROLE_SELECTION", "none"),
     T({"ROLE_SELECTION"}, "LOCKED", "CANCEL_ROLE_SELECTION", "none"),
     T({"ROLE_SELECTION"}, "ROLE_DISTRIBUTION", "CONFIRM_ROLES", "CONFIRM_ROLES"),
     T({"ROLE_DISTRIBUTION"}, "ROOM_ASSIGNMENT", "ROLES_DISTRIBUTED", "ROLES_DISTRIBUTED"),
     T({"ROOM_ASSIGNMENT"}, "ROUND_1", "START_GAME", "START_GAME"),
     T({"ROUND_1"}, "ROUND_2", "ROUND_COMPLETE", "ROUND_COMPLETE"),
     T({"ROUND_2"}, "ROUND_3", "ROUND_COMPLETE", "ROUND_COMPLETE"),
     T({"ROUND_3"}, "RESOLUTION", "ROUND_COMPLETE", "ROUND_COMPLETE_3"),
     T({"ROUND_3"}, "ROUND_4", "ROUND_COMPLETE", "ROUND_COMPLETE_5"),
     T({"ROUND_4"}, "ROUND_5", "ROUND_COMPLETE", "ROUND_COMPLETE"),
     T({"ROUND_5"}, "RESOLUTION", "ROUND_COMPLETE", "ROUND_COMPLETE"),
     T(RoundStatuses, "RESOLUTION", "INSTANT_WIN", "none"),
     T({"RESOLUTION"}, "FINISHED", "WIN_CONDITIONS_RESOLVED", "none") >>

findTransitions(currentStatus, trigger) ==
  SelectSeq(transitions,
            LAMBDA t : currentStatus \in t.from /\ t.trigger = trigger)

\* the transitions of this status and trigger whose guard is satisfied
enabledTransitions(g, trigger) ==
  SelectSeq(findTransitions(g.status, trigger), LAMBDA t : guard(t.guard, g))

canTransition(g, trigger) == Len(enabledTransitions(g, trigger)) > 0

\* StateMachine.transition: the first transition with a satisfied guard is
\* taken; console holds the lines "State transition: from -> to (trigger)"
transition(w, trigger) ==
  IF ~canTransition(w.game, trigger) THEN w
  ELSE LET t == Head(enabledTransitions(w.game, trigger))
       IN  [w EXCEPT
             !.game.status = t.to,
             !.game.version = @ + 1,
             !.console = Append(@, [from |-> w.game.status, to |-> t.to,
                                    trigger |-> trigger])]

getCurrentRoundNumber(status) ==
  CASE status = "ROUND_1" -> 1
    [] status = "ROUND_2" -> 2
    [] status = "ROUND_3" -> 3
    [] status = "ROUND_4" -> 4
    [] status = "ROUND_5" -> 5
    [] OTHER -> Null

----------------------------------------------------------------------------
(* Timer manager (engines/RoundEngine, class TimerManager).                *)
(* w.timers is the timers Map: key "main" is the game id (the round        *)
(* timer), key "parlay" is `${gameId}_parlay`.  A timer keeps elapsed =    *)
(* Date.now() - startTime and pausedFor = Date.now() - pausedAt in place   *)
(* of the two epochs; the clock moves both (advanceClock).  A timer has    *)
(* its interval exactly while it is RUNNING.                               *)

broadcastTimerState(w, key, timer) ==
  IF key = "main"
  THEN LET w1 == IF w.game.inStore
                 THEN [w EXCEPT !.game.timer =
                         [duration |-> timer.duration,
                          remaining |-> timer.remaining,
                          state |-> timer.state]]
                 ELSE w
       IN  broadcast(w1, "TIMER_UPDATE",
                     [NoPayload EXCEPT !.n = timer.remaining, !.info = timer.state],
                     PublicScope)
  ELSE w  \* gameStore.get and the bus are keyed `${gameId}_parlay`: another journal

\* a variant of stopTimer that leaves the timer in the map with its interval
stopTimerLeavingEntry(w, key) == w

stopTimer(w, key) ==
  IF key \notin DOMAIN w.timers THEN w
  ELSE [w EXCEPT !.timers = Delete(@, key)]

startTimer(w, key, duration) ==
  LET w1 == stopTimer(w, key)
      timer == [duration |-> duration, remaining |-> duration, elapsed |-> 0,
                pausedFor |-> 0, state |-> "RUNNING"]
      w2 == [w1 EXCEPT !.timers = Put(@, key, timer)]
  IN  broadcastTimerState(w2, key, timer)

pauseTimer(w, key) ==
  IF key \notin DOMAIN w.timers THEN w
  ELSE LET old == w.timers[key]
           timer == [old EXCEPT
                      !.remaining = Max({0, old.duration - old.elapsed}),
                      !.state = "PAUSED",
                      !.pausedFor = 0]
       IN  broadcastTimerState([w EXCEPT !.timers[key] = timer], key, timer)

resumeTimer(w, key) ==
  IF key \notin DOMAIN w.timers \/ w.timers[key].state # "PAUSED" THEN w
  ELSE LET old == w.timers[key]
           timer == [old EXCEPT
                      !.elapsed = old.elapsed - old.pausedFor,
                      !.pausedFor = 0,
                      !.state = "RUNNING"]
       IN  broadcastTimerState([w EXCEPT !.timers[key] = timer], key, timer)

\* Date.now() moves on by ms
advanceClock(w, ms) ==
  [w EXCEPT !.timers =
     [k \in DOMAIN @ |->
        [@[k] EXCEPT !.elapsed = @ + ms,
                     !.pausedFor = IF w.timers[k].state = "PAUSED" THEN @ + ms ELSE @]]]

----------------------------------------------------------------------------
(* Round engine (engines/RoundEngine). *)

\* game.players.get(id) found: apply f to the player; otherwise nothing
updatePlayer(w, id, f(_)) ==
  IF id \in DOMAIN w.game.players
  THEN [w EXCEPT !.game.players[id] = f(@)]
  ELSE w

demote(player) == [player EXCEPT !.isLeader = FALSE, !.canBeHostage = TRUE]

promote(player) == [player EXCEPT !.isLeader = TRUE, !.canBeHostage = FALSE]

onRoundTimerExpired(w) ==
  broadcast([w EXCEPT !.game.paused = TRUE], "GAME_PAUSED",
            [NoPayload EXCEPT !.info = "Hostage selection phase"], PublicScope)

startRound(w, roundNumber) ==
  LET duration == w.game.config.roundDurations[roundNumber]
      w1 == [w EXCEPT
              !.game.currentRound = roundNumber,
              !.game.rooms =
                [r \in RoomIds |->
                   [@[r] EXCEPT !.leaderVotes = EmptyMap,
                                !.leaderVotingActive = (roundNumber = 1),
                                !.leaderVotingTieCount = 0,
                                !.hostageCandidates = <<>>,
                                !.hostagesLocked = FALSE]]]
      w2 == IF roundNumber = 1
            THEN [w1 EXCEPT !.game.timer =
                    [duration |-> duration, remaining |-> duration, state |-> "PAUSED"]]
            ELSE startTimer(w1, "main", duration)
  IN  broadcast(w2, "ROUND_STARTED", [NoPayload EXCEPT !.n = roundNumber], PublicScope)

endRound(w, reason) ==
  LET roundNumber == w.game.currentRound
      w1 == stopTimer(w, "main")
      w2 == broadcast(w1, "ROUND_ENDED",
                      [NoPayload EXCEPT !.n = roundNumber, !.info = reason], PublicScope)
      w3 == transition(w2, "ROUND_COMPLETE")
  IN  IF w3.game.status \in RoundStatuses
      THEN startRound(w3, getCurrentRoundNumber(w3.game.status))
      ELSE w3

\* a variant of bothLeadersElected that is content with one leader
eitherLeaderElected(g) ==
  \/ g.rooms["ROOM_A"].leaderId # Null
  \/ g.rooms["ROOM_B"].leaderId # Null

\* electLeader, round 1: bothLeadersElected
bothLeadersElected(g) ==
  /\ g.rooms["ROOM_A"].leaderId # Null
  /\ g.rooms["ROOM_B"].leaderId # Null

electLeader(w, roomId, leaderId, method) ==
  LET oldLeaderId == w.game.rooms[roomId].leaderId
      w1 == IF oldLeaderId # Null /\ oldLeaderId # leaderId
            THEN updatePlayer(w, oldLeaderId, demote)
            ELSE w
      w2 == [w1 EXCEPT !.game.rooms[roomId].leaderId = leaderId,
                       !.game.leaders[roomId] = leaderId,
                       !.game.rooms[roomId].leaderVotingActive = FALSE,
                       !.game.rooms[roomId].leaderVotingTieCount = 0]
      w3 == updatePlayer(w2, leaderId, promote)
      w4 == broadcastToRoom(w3, roomId, "LEADER_ELECTED",
                            [NoPayload EXCEPT !.playerId = leaderId, !.info = method])
  IN  IF w4.game.currentRound = 1
      THEN IF bothLeadersElected(w4.game)
           THEN broadcast(startTimer(w4, "main", w4.game.config.roundDurations[1]),
                          "GAME_RESUMED",
                          [NoPayload EXCEPT !.info = "Both leaders elected"],
                          PublicScope)
           ELSE w4
      ELSE IF w4.game.currentRound > 1 /\ oldLeaderId # Null
           THEN broadcast(resumeTimer(w4, "main"), "GAME_RESUMED",
                          [NoPayload EXCEPT !.info = "Leader vote completed"],
                          PublicScope)
           ELSE w4

\* the number of votes each candidate of leaderVotes has
voteCounts(leaderVotes) ==
  [c \in Range(leaderVotes) |->
     Cardinality({v \in DOMAIN leaderVotes : leaderVotes[v] = c})]

\* the candidates with the maximum vote count
winners(leaderVotes) ==
  LET counts == voteCounts(leaderVotes)
      maxVotes == Max(Range(counts))
  IN  {c \in DOMAIN counts : counts[c] = maxVotes}

\* a variant of resolveLeaderVote in which every tie calls for another poll
resolveWithoutRandomPick(w, roomId, randomIndex) ==
  LET room == w.game.rooms[roomId]
      tied == Ascending(winners(room.leaderVotes))
      tieCount == room.leaderVotingTieCount + 1
  IN  IF Len(tied) > 1
      THEN LET w1 == broadcastToRoom(
                       [w EXCEPT !.game.rooms[roomId].leaderVotingTieCount = tieCount],
                       roomId, "LEADER_ELECTED",
                       [NoPayload EXCEPT !.info = "TIED", !.n = tieCount])
           IN  [w1 EXCEPT !.game.rooms[roomId].leaderVotes = EmptyMap,
                          !.game.rooms[roomId].leaderVotingActive = TRUE]
      ELSE electLeader(w, roomId, tied[1], "MAJORITY_VOTE")

\* randomIndex is Math.floor(Math.random() * winners.length)
resolveLeaderVote(w, roomId, randomIndex) ==
  LET room == w.game.rooms[roomId]
      tied == Ascending(winners(room.leaderVotes))
      tieCount == room.leaderVotingTieCount + 1
  IN  IF Len(tied) > 1
      THEN IF tieCount >= 3
           THEN electLeader([w EXCEPT !.game.rooms[roomId].leaderVotingTieCount = tieCount],
                            roomId, tied[(randomIndex % Len(tied)) + 1],
                            "RANDOM_SELECTION")
           ELSE LET w1 == broadcastToRoom(
                            [w EXCEPT !.game.rooms[roomId].leaderVotingTieCount = tieCount],
                            roomId, "LEADER_ELECTED",
                            [NoPayload EXCEPT !.info = "TIED", !.n = tieCount])
                IN  [w1 EXCEPT !.game.rooms[roomId].leaderVotes = EmptyMap,
                               !.game.rooms[roomId].leaderVotingActive = TRUE]
      ELSE electLeader(w, roomId, tied[1], "MAJORITY_VOTE")

nominateLeader(w, roomId, candidateId, voterId, randomIndex) ==
  LET room == w.game.rooms[roomId]
  IN  IF room.leaderId # Null /\ ~room.leaderVotingActive THEN w
      ELSE IF ~Includes(room.players, candidateId) THEN w
      ELSE IF ~Includes(room.players, voterId) THEN w
      ELSE LET w1 == [w EXCEPT !.game.rooms[roomId].leaderVotes =
                                 Put(@, voterId, candidateId)]
               votes == w1.game.rooms[roomId].leaderVotes
               w2 == broadcastToRoom(w1, roomId, "VOTE_CAST",
                                     [NoPayload EXCEPT !.n = Cardinality(DOMAIN votes)])
           IN  IF Cardinality(DOMAIN votes) = Len(room.players)
               THEN resolveLeaderVote(w2, roomId, randomIndex)
               ELSE w2

initiateNewLeaderVote(w, roomId, playerId) ==
  LET room == w.game.rooms[roomId]
  IN  IF ~Includes(room.players, playerId) THEN w
      ELSE IF room.leaderId = Null THEN w
      ELSE IF room.leaderVotingActive THEN w
      ELSE LET w1 == pauseTimer(w, "main")
               w2 == [w1 EXCEPT !.game.rooms[roomId].leaderVotingActive = TRUE,
                                !.game.rooms[roomId].leaderVotingTieCount = 0,
                                !.game.rooms[roomId].leaderVotes = EmptyMap]
           IN  broadcastToRoom(w2, roomId, "LEADER_ELECTED",
                               [NoPayload EXCEPT !.info = "VOTING_STARTED"])

countVotesFor(candidateId, votes) ==
  Cardinality({v \in DOMAIN votes : votes[v] = candidateId})

\* a variant of usurpLeader that publishes nothing
usurpUnannounced(w, roomId, newLeaderId) ==
  LET oldLeaderId == w.game.rooms[roomId].leaderId
      w1 == IF oldLeaderId # Null THEN updatePlayer(w, oldLeaderId, demote) ELSE w
      w2 == [w1 EXCEPT !.game.rooms[roomId].leaderId = newLeaderId,
                       !.game.leaders[roomId] = newLeaderId]
      w3 == updatePlayer(w2, newLeaderId, promote)
  IN  [w3 EXCEPT !.game.rooms[roomId].leaderVotes = EmptyMap]

usurpLeader(w, roomId, newLeaderId) ==
  LET oldLeaderId == w.game.rooms[roomId].leaderId
      w1 == IF oldLeaderId # Null THEN updatePlayer(w, oldLeaderId, demote) ELSE w
      w2 == [w1 EXCEPT !.game.rooms[roomId].leaderId = newLeaderId,
                       !.game.leaders[roomId] = newLeaderId]
      w3 == updatePlayer(w2, newLeaderId, promote)
      w4 == [w3 EXCEPT !.game.rooms[roomId].leaderVotes = EmptyMap]
  IN  broadcastToRoom(w4, roomId, "LEADER_USURPED",
                      [NoPayload EXCEPT !.playerId = newLeaderId,
                                        !.n = w4.game.currentRound])

voteUsurp(w, roomId, voterId, candidateId) ==
  LET room == w.game.rooms[roomId]
  IN  IF ~Includes(room.players, voterId) THEN w
      ELSE IF ~Includes(room.players, candidateId) THEN w
      ELSE LET w1 == [w EXCEPT !.game.rooms[roomId].leaderVotes =
                                 Put(@, voterId, candidateId)]
               votes == w1.game.rooms[roomId].leaderVotes
               votesNeeded == (Len(room.players) \div 2) + 1
           IN  IF countVotesFor(candidateId, votes) >= votesNeeded
               THEN usurpLeader(w1, roomId, candidateId)
               ELSE broadcastToRoom(w1, roomId, "VOTE_CAST",
                                    [NoPayload EXCEPT !.n = Cardinality(DOMAIN votes)])

abdicate(w, roomId, currentLeaderId, newLeaderId) ==
  LET room == w.game.rooms[roomId]
  IN  IF room.leaderId # currentLeaderId THEN w
      ELSE IF ~Includes(room.players, newLeaderId) THEN w
      ELSE LET w1 == updatePlayer(w, currentLeaderId, demote)
               w2 == [w1 EXCEPT !.game.rooms[roomId].leaderId = newLeaderId,
                                !.game.leaders[roomId] = newLeaderId]
               w3 == updatePlayer(w2, newLeaderId, promote)
           IN  broadcastToRoom(w3, roomId, "LEADER_ABDICATED",
                               [NoPayload EXCEPT !.playerId = newLeaderId])

\* a variant of selectHostage without the limit
selectHostageUnlimited(w, roomId, hostageId) ==
  LET room == w.game.rooms[roomId]
  IN  IF room.hostagesLocked THEN w
      ELSE IF Includes(room.hostageCandidates, hostageId)
      THEN broadcastToRoom(
             [w EXCEPT !.game.rooms[roomId].hostageCandidates = Without(@, hostageId)],
             roomId, "HOSTAGE_SELECTED",
             [NoPayload EXCEPT !.n = Len(room.hostageCandidates) - 1,
                               !.info = "deselected"])
      ELSE broadcastToRoom(
             [w EXCEPT !.game.rooms[roomId].hostageCandidates = Append(@, hostageId)],
             roomId, "HOSTAGE_SELECTED",
             [NoPayload EXCEPT !.n = Len(room.hostageCandidates) + 1])

selectHostage(w, roomId, hostageId) ==
  LET room == w.game.rooms[roomId]
      hostageCount == calculateHostageCount(Cardinality(DOMAIN w.game.players),
                                            w.game.currentRound)
  IN  IF room.hostagesLocked THEN w
      ELSE IF Includes(room.hostageCandidates, hostageId)
      THEN broadcastToRoom(
             [w EXCEPT !.game.rooms[roomId].hostageCandidates = Without(@, hostageId)],
             roomId, "HOSTAGE_SELECTED",
             [NoPayload EXCEPT !.n = Len(room.hostageCandidates) - 1,
                               !.info = "deselected"])
      ELSE IF Len(room.hostageCandidates) >= hostageCount THEN w
      ELSE broadcastToRoom(
             [w EXCEPT !.game.rooms[roomId].hostageCandidates = Append(@, hostageId)],
             roomId, "HOSTAGE_SELECTED",
             [NoPayload EXCEPT !.n = Len(room.hostageCandidates) + 1])

\* a variant of bothRoomsLocked that is content with one locked room
eitherRoomLocked(g) ==
  g.rooms["ROOM_A"].hostagesLocked \/ g.rooms["ROOM_B"].hostagesLocked

bothRoomsLocked(g) ==
  g.rooms["ROOM_A"].hostagesLocked /\ g.rooms["ROOM_B"].hostagesLocked

startParlay(w) ==
  LET w1 == pauseTimer(w, "main")
      w2 == startTimer(w1, "parlay", ParlayDuration)
      w3 == [w2 EXCEPT !.game.parlayActive = TRUE]
  IN  broadcast(w3, "PARLAY_STARTED", NoPayload, PublicScope)

lockHostages(w, roomId) ==
  LET room == w.game.rooms[roomId]
      hostageCount == calculateHostageCount(Cardinality(DOMAIN w.game.players),
                                            w.game.currentRound)
  IN  IF Len(room.hostageCandidates) # hostageCount THEN w
      ELSE LET w1 == [w EXCEPT !.game.rooms[roomId].hostagesLocked = TRUE]
               w2 == broadcastToRoom(w1, roomId, "HOSTAGES_LOCKED", NoPayload)
           IN  IF bothRoomsLocked(w2.game) THEN startParlay(w2) ELSE w2

\* one iteration of a swap loop of exchangeHostages
moveHostage(g, playerId, from, to) ==
  IF playerId \in DOMAIN g.players
  THEN [g EXCEPT !.players[playerId].currentRoom = to,
                 !.players[playerId].wasSentAsHostage = TRUE,
                 !.rooms[from].players = Without(@, playerId),
                 !.rooms[to].players = Append(@, playerId)]
  ELSE g

RECURSIVE moveHostages(_, _, _, _)
moveHostages(g, hostages, from, to) ==
  IF hostages = <<>> THEN g
  ELSE moveHostages(moveHostage(g, Head(hostages), from, to), Tail(hostages), from, to)

exchangeHostages(w) ==
  LET hostagesFromA == w.game.rooms["ROOM_A"].hostageCandidates
      hostagesFromB == w.game.rooms["ROOM_B"].hostageCandidates
      g1 == moveHostages(w.game, hostagesFromA, "ROOM_A", "ROOM_B")
      g2 == moveHostages(g1, hostagesFromB, "ROOM_B", "ROOM_A")
      placed == {p \in DOMAIN g2.players : g2.players[p].currentRoom # "null"}
      g3 == [g2 EXCEPT !.roomAssignments =
               [p \in (DOMAIN @) \cup placed |->
                  IF p \in placed THEN g2.players[p].currentRoom ELSE @[p]]]
      w1 == broadcast([w EXCEPT !.game = g3], "HOSTAGES_EXCHANGED",
                      [NoPayload EXCEPT !.n = Len(hostagesFromA) + Len(hostagesFromB)],
                      PublicScope)
      w2 == [w1 EXCEPT
              !.game.rooms = [r \in RoomIds |->
                                [@[r] EXCEPT !.hostageCandidates = <<>>,
                                             !.hostagesLocked = FALSE]],
              !.game.paused = FALSE]
  IN  endRound(w2, "HOSTAGES_EXCHANGED")

endParlay(w) ==
  LET w1 == stopTimer(w, "parlay")
      w2 == [w1 EXCEPT !.game.parlayActive = FALSE]
      w3 == broadcast(w2, "PARLAY_ENDED", NoPayload, PublicScope)
  IN  exchangeHostages(w3)

\* TimerManager.tick, with the onExpired callback the timer was started with
tick(w, key) ==
  IF key \notin DOMAIN w.timers \/ w.timers[key].state # "RUNNING" THEN w
  ELSE LET old == w.timers[key]
           elapsed == old.elapsed
           timer == [old EXCEPT !.remaining = Max({0, old.duration - elapsed})]
           w1 == [w EXCEPT !.timers[key] = timer]
           w2 == IF elapsed % 1000 < 100
                 THEN broadcastTimerState(w1, key, timer)
                 ELSE w1
       IN  IF timer.remaining <= 0
           THEN LET w3 == stopTimer(w2, key)
                IN  IF key = "main" THEN onRoundTimerExpired(w3) ELSE endParlay(w3)
           ELSE w2

----------------------------------------------------------------------------
(* Validation (validation/ValidationEngine) and the character catalogue.   *)

\* the characters the loader serves: team, requires, mutuallyExclusive
Catalogue ==
  [c \in {"president", "bomber", "blue_team_member", "red_team_member"} |->
     [team |-> IF c \in {"president", "blue_team_member"} THEN "BLUE" ELSE "RED",
      requires |-> {},
      mutuallyExclusive |-> {}]]

\* a variant of playerCountErrors that knows no maximum
playerCountMinimumOnly(g) ==
  IF Cardinality(DOMAIN g.players) < MinPlayerCount
  THEN <<"INSUFFICIENT_PLAYERS">>
  ELSE <<>>

\* PlayerCountValidator.validate: the codes of the errors pushed, in order
playerCountErrors(g) ==
  LET playerCount == Cardinality(DOMAIN g.players)
  IN  (IF playerCount < MinPlayerCount THEN <<"INSUFFICIENT_PLAYERS">> ELSE <<>>)
        \o (IF playerCount > MaxPlayerCount THEN <<"TOO_MANY_PLAYERS">> ELSE <<>>)

\* PlayerCountValidator.validate: valid
validatePlayerCount(g) == Len(playerCountErrors(g)) = 0

\* RoleConfigurationValidator.validate: no error is pushed
validateRoleConfiguration(roles, playerCount, buryCard) ==
  LET expectedCount == IF buryCard THEN playerCount - 1 ELSE playerCount
  IN  /\ playerCount # 0
      /\ Includes(roles, "president")
      /\ Includes(roles, "bomber")
      /\ Len(roles) = expectedCount
      /\ \A i \in DOMAIN roles :
           /\ roles[i] \in DOMAIN Catalogue
           /\ \A required \in Catalogue[roles[i]].requires : Includes(roles, required)
           /\ \A excluded \in Catalogue[roles[i]].mutuallyExclusive :
                ~Includes(roles, excluded)

----------------------------------------------------------------------------
(* Game controller (controllers/GameController).  Every command is a       *)
(* function of the world; a rejected command returns the world unchanged.  *)

isHostCommand(w, playerId) ==
  /\ w.game.inStore
  /\ playerId \in DOMAIN w.game.players
  /\ w.game.players[playerId].isHost

isLeaderCommand(w, playerId) ==
  /\ w.game.inStore
  /\ playerId \in DOMAIN w.game.players
  /\ w.game.players[playerId].isLeader

\* the first game of a fresh server; ids are issued in order
createGame(totalRounds, roundDurations, buryCard) ==
  LET w == [game |-> storeCreateGame(1, totalRounds, roundDurations, buryCard),
            bus |-> InitialBus,
            timers |-> EmptyMap,
            console |-> <<>>,
            nextId |-> 2,
            connections |-> {},
            store |-> storeSet(InitialStore, ZeroDraws),
            call |-> NoCall,
            pending |-> NonePending]
  IN  broadcast(w, "GAME_CREATED", NoPayload, PublicScope)

joinGame(w) ==
  IF ~w.game.inStore THEN w
  ELSE IF w.game.status # "LOBBY" THEN w
  ELSE LET playerId == w.nextId
           w1 == [w EXCEPT !.game.players = Put(@, playerId, createPlayer(FALSE)),
                           !.nextId = @ + 1]
       IN  broadcast(w1, "PLAYER_JOINED",
                     [NoPayload EXCEPT !.playerId = playerId,
                                       !.n = Cardinality(DOMAIN w1.game.players)],
                     PublicScope)

\* gameStore.delete(gameId), seen from the world
deleteGame(w, gameId) ==
  [w EXCEPT !.store = storeDelete(@, gameId),
            !.game.inStore = IF gameId = ThisGame THEN FALSE ELSE @]

leaveGame(w, playerId) ==
  IF ~w.game.inStore THEN w
  ELSE IF playerId \notin DOMAIN w.game.players THEN w
  ELSE LET player == w.game.players[playerId]
           w1 == [w EXCEPT !.game.players = Delete(@, playerId)]
           remaining == DOMAIN w1.game.players
           w2 == IF player.isHost /\ remaining # {}
                 THEN [w1 EXCEPT !.game.players[Min(remaining)].isHost = TRUE,
                                 !.game.hostId = Min(remaining)]
                 ELSE w1
           w3 == broadcast(w2, "PLAYER_LEFT",
                           [NoPayload EXCEPT !.playerId = playerId,
                                             !.n = Cardinality(remaining)],
                           PublicScope)
       IN  IF remaining = {} THEN deleteGame(w3, ThisGame) ELSE w3

lockRoom(w, playerId) ==
  IF ~isHostCommand(w, playerId) THEN w
  ELSE IF ~validatePlayerCount(w.game) THEN w
  ELSE IF ~canTransition(w.game, "LOCK_ROOM") THEN w
  ELSE LET w1 == transition(w, "LOCK_ROOM")
       IN  IF ~canTransition(w1.game, "START_ROLE_SELECTION") THEN w1
           ELSE broadcast(transition(w1, "START_ROLE_SELECTION"), "ROOM_LOCKED",
                          [NoPayload EXCEPT !.n = Cardinality(DOMAIN w1.game.players)],
                          PublicScope)

selectRoles(w, playerId, roles) ==
  IF ~isHostCommand(w, playerId) THEN w
  ELSE IF ~validateRoleConfiguration(roles, Cardinality(DOMAIN w.game.players),
                                     w.game.config.buryCard) THEN w
  ELSE broadcast([w EXCEPT !.game.config.selectedRoles = roles],
                 "ROLES_SELECTED", [NoPayload EXCEPT !.n = Len(roles)], PublicScope)

swap(array, i, j) == [array EXCEPT ![i] = array[j], ![j] = array[i]]

\* Fisher-Yates from the last index down; randomValues[i] is the value read
\* from crypto.randomBytes at (0-based) index i
RECURSIVE shuffleFrom(_, _, _)
shuffleFrom(array, i, randomValues) ==
  IF i <= 0 THEN array
  ELSE shuffleFrom(swap(array, i + 1, (randomValues[i] % (i + 1)) + 1),
                   i - 1, randomValues)

shuffleArray(array, randomValues) == shuffleFrom(array, Len(array) - 1, randomValues)

\* the role at (0-based) index i of the shuffled deck
roleAt(roles, i) == IF i + 1 \in DOMAIN roles THEN roles[i + 1] ELSE "undefined"

RECURSIVE assignRolesFrom(_, _, _, _)
assignRolesFrom(w, players, roles, i) ==
  IF i >= Len(players) THEN w
  ELSE LET playerId == players[i + 1]
           role == roleAt(roles, i)
           w1 == [w EXCEPT !.game.players[playerId].currentRole = role,
                           !.game.roleAssignments = Put(@, playerId, role)]
           w2 == broadcastToPlayer(w1, playerId, "ROLE_ASSIGNED",
                                   [NoPayload EXCEPT !.characterId = role])
       IN  assignRolesFrom(w2, players, roles, i + 1)

distributeRoles(w, randomValues) ==
  LET players == PlayerList(w.game)
      shuffled == shuffleArray(w.game.config.selectedRoles, randomValues)
      bury == w.game.config.buryCard /\ Len(shuffled) > Len(players)
      roles == IF bury THEN SubSeq(shuffled, 1, Len(shuffled) - 1) ELSE shuffled
      w1 == IF bury
            THEN [w EXCEPT !.game.buriedCard = shuffled[Len(shuffled)]]
            ELSE w
  IN  assignRolesFrom(w1, players, roles, 0)

RECURSIVE assignRoomsFrom(_, _, _, _)
assignRoomsFrom(g, players, midpoint, i) ==
  IF i >= Len(players) THEN g
  ELSE LET playerId == players[i + 1]
           room == IF i < midpoint THEN "ROOM_A" ELSE "ROOM_B"
       IN  assignRoomsFrom(
             [g EXCEPT !.players[playerId].currentRoom = room,
                       !.roomAssignments = Put(@, playerId, room),
                       !.rooms[room].players = Append(@, playerId)],
             players, midpoint, i + 1)

assignRooms(w, randomValues) ==
  LET players == shuffleArray(PlayerList(w.game), randomValues)
      midpoint == Len(players) \div 2
  IN  [w EXCEPT !.game = assignRoomsFrom(@, players, midpoint, 0)]

confirmRoles(w, playerId, roleRandom, roomRandom) ==
  IF ~isHostCommand(w, playerId) THEN w
  ELSE IF ~canTransition(w.game, "CONFIRM_ROLES") THEN w
  ELSE LET w1 == transition(w, "CONFIRM_ROLES")
           w2 == distributeRoles(w1, roleRandom)
       IN  IF ~canTransition(w2.game, "ROLES_DISTRIBUTED") THEN w2
           ELSE assignRooms(transition(w2, "ROLES_DISTRIBUTED"), roomRandom)

startGame(w, playerId) ==
  IF ~isHostCommand(w, playerId) THEN w
  ELSE IF ~canTransition(w.game, "START_GAME") THEN w
  ELSE startRound(transition(w, "START_GAME"), 1)

\* The async commands, await by await.  `await stateMachine.transition(...)`
\* runs the transition and suspends the command; what follows the await runs
\* when the command is resumed.

suspend(w, at, playerId) == [w EXCEPT !.pending = [at |-> at, playerId |-> playerId]]

\* GameController.lockRoom up to its first await
lockRoomBegin(w, playerId) ==
  IF ~isHostCommand(w, playerId) THEN w
  ELSE IF ~validatePlayerCount(w.game) THEN w
  ELSE IF ~canTransition(w.game, "LOCK_ROOM") THEN w
  ELSE suspend(transition(w, "LOCK_ROOM"), "lockRoom", playerId)

\* GameController.confirmRoles up to its first await
confirmRolesBegin(w, playerId) ==
  IF ~isHostCommand(w, playerId) THEN w
  ELSE IF ~canTransition(w.game, "CONFIRM_ROLES") THEN w
  ELSE suspend(transition(w, "CONFIRM_ROLES"), "confirmRoles", playerId)

\* GameController.startGame up to its await
startGameBegin(w, playerId) ==
  IF ~isHostCommand(w, playerId) THEN w
  ELSE IF ~canTransition(w.game, "START_GAME") THEN w
  ELSE suspend(transition(w, "START_GAME"), "startGame", playerId)

\* the suspended command runs on, to its next await or to its end
resume(w, roleRandom, roomRandom) ==
  LET done == [w EXCEPT !.pending = NonePending]
  IN  CASE w.pending.at = "lockRoom" ->
             IF ~canTransition(w.game, "START_ROLE_SELECTION") THEN done
             ELSE broadcast(transition(done, "START_ROLE_SELECTION"), "ROOM_LOCKED",
                            [NoPayload EXCEPT !.n = Cardinality(DOMAIN w.game.players)],
                            PublicScope)
        [] w.pending.at = "confirmRoles" ->
             LET w1 == distributeRoles(w, roleRandom)
             IN  IF ~canTransition(w1.game, "ROLES_DISTRIBUTED")
                 THEN [w1 EXCEPT !.pending = NonePending]
                 ELSE suspend(transition(w1, "ROLES_DISTRIBUTED"), "assignRooms",
                              w.pending.playerId)
        [] w.pending.at = "assignRooms" -> assignRooms(done, roomRandom)
        [] w.pending.at = "startGame" -> startRound(done, 1)
        [] OTHER -> w

\* the round commands of the controller
commandNominateLeader(w, playerId, roomId, candidateId, randomIndex) ==
  IF ~w.game.inStore THEN w
  ELSE nominateLeader(w, roomId, candidateId, playerId, randomIndex)

commandInitiateNewLeaderVote(w, playerId, roomId) ==
  IF ~w.game.inStore THEN w
  ELSE initiateNewLeaderVote(w, roomId, playerId)

commandVoteUsurp(w, playerId, roomId, candidateId) ==
  IF ~w.game.inStore THEN w
  ELSE voteUsurp(w, roomId, playerId, candidateId)

commandSelectHostage(w, playerId, roomId, hostageId) ==
  IF ~isLeaderCommand(w, playerId) THEN w
  ELSE selectHostage(w, roomId, hostageId)

commandLockHostages(w, playerId, roomId) ==
  IF ~isLeaderCommand(w, playerId) THEN w
  ELSE lockHostages(w, roomId)

----------------------------------------------------------------------------
(* The server as a state machine: one action per command or timer step.    *)

World ==
  [game |-> game, bus |-> bus, timers |-> timers, console |-> console,
   nextId |-> nextId, connections |-> connections, store |-> store,
   call |-> call, pending |-> pending]

Starts(w) ==
  /\ game = w.game
  /\ bus = w.bus
  /\ timers = w.timers
  /\ console = w.console
  /\ nextId = w.nextId
  /\ connections = w.connections
  /\ store = w.store
  /\ call = w.call
  /\ pending = w.pending

\* the handler ran and was not rejected: the world becomes w
Becomes(w) ==
  /\ w # World
  /\ game' = w.game
  /\ bus' = w.bus
  /\ timers' = w.timers
  /\ console' = w.console
  /\ nextId' = w.nextId
  /\ connections' = w.connections
  /\ store' = w.store
  /\ call' = w.call
  /\ pending' = w.pending

PlayerIds == DOMAIN game.players

\* the values crypto.randomBytes yields for a shuffle of n elements
RandomValues(n) == {[i \in 1..(n - 1) |-> r] : r \in 0..MaxRandom}

\* a deck of n cards: the two required characters and team members
Deck(n) ==
  [i \in 1..n |->
     IF i = 1 THEN "president"
     ELSE IF i = 2 THEN "bomber"
     ELSE IF i % 2 = 1 THEN "blue_team_member" ELSE "red_team_member"]

Decks == {Deck(n) : n \in MinPlayerCount..MaxPlayers}

\* WebSocketServer.handleConnectMessage: the connection is entered in
\* connectionsByPlayer under its player, and index.ts onConnectionAssociated
\* subscribes it to the bus for that player
handleConnectMessage(w, playerId) ==
  subscribe([w EXCEPT !.connections = @ \cup {playerId}], playerId)

\* WebSocketServer.handleDisconnect: the connection is taken out of the maps
handleDisconnect(w, playerId) ==
  [w EXCEPT !.connections = @ \ {playerId}]

Connect ==
  /\ Len(bus.subscriptions) < MaxSubscriptions
  /\ \E playerId \in PlayerIds : Becomes(handleConnectMessage(World, playerId))

JoinGame ==
  /\ nextId <= MaxPlayers
  /\ Becomes(joinGame(World))

LeaveGame ==
  /\ (nextId - 1) - Cardinality(PlayerIds) < MaxLeaves
  /\ \E playerId \in PlayerIds : Becomes(leaveGame(World, playerId))

LockRoom == \E playerId \in PlayerIds : Becomes(lockRoom(World, playerId))

SelectRoles ==
  \E playerId \in PlayerIds, roles \in Decks :
    /\ roles # game.config.selectedRoles
    /\ Becomes(selectRoles(World, playerId, roles))

ConfirmRoles ==
  \E playerId \in PlayerIds :
    \E roleRandom \in RandomValues(Len(game.config.selectedRoles)),
       roomRandom \in RandomValues(Cardinality(PlayerIds)) :
      Becomes(confirmRoles(World, playerId, roleRandom, roomRandom))

StartGame == \E playerId \in PlayerIds : Becomes(startGame(World, playerId))

Init == Starts(createGame(DefaultTotalRounds, DefaultRoundDurations, FALSE))

Next ==
  \/ Connect
  \/ JoinGame
  \/ LeaveGame
  \/ LockRoom
  \/ SelectRoles
  \/ ConfirmRoles
  \/ StartGame

Spec == Init /\ [][Next]_vars

----------------------------------------------------------------------------
(* Round commands and the clock.  limit bounds the sequence number of the  *)
(* journal: a command is taken while fewer than limit events are published.*)

\* every id issued so far: a player who left can still send commands
IssuedIds == 1..(nextId - 1)

Open(limit) == bus.sequenceNumber < limit

NominateLeader(limit) ==
  /\ Open(limit)
  /\ \E playerId \in IssuedIds, roomId \in RoomIds, candidateId \in IssuedIds :
       \E randomIndex \in 0..(Len(game.rooms[roomId].players) - 1) :
         Becomes(commandNominateLeader(World, playerId, roomId, candidateId,
                                       randomIndex))

InitiateNewLeaderVote(limit) ==
  /\ Open(limit)
  /\ \E playerId \in IssuedIds, roomId \in RoomIds :
       Becomes(commandInitiateNewLeaderVote(World, playerId, roomId))

VoteUsurp(limit) ==
  /\ Open(limit)
  /\ \E playerId \in IssuedIds, roomId \in RoomIds, candidateId \in IssuedIds :
       Becomes(commandVoteUsurp(World, playerId, roomId, candidateId))

\* RoundEngine.abdicate (the engine's operation; the controller has no command for it)
Abdicate(limit) ==
  /\ Open(limit)
  /\ game.inStore
  /\ \E currentLeaderId \in IssuedIds, roomId \in RoomIds, newLeaderId \in IssuedIds :
       /\ newLeaderId # currentLeaderId
       /\ Becomes(abdicate(World, roomId, currentLeaderId, newLeaderId))

SelectHostage(limit) ==
  /\ Open(limit)
  /\ \E playerId \in IssuedIds, roomId \in RoomIds, hostageId \in IssuedIds :
       Becomes(commandSelectHostage(World, playerId, roomId, hostageId))

LockHostages(limit) ==
  /\ Open(limit)
  /\ \E playerId \in IssuedIds, roomId \in RoomIds :
       Becomes(commandLockHostages(World, playerId, roomId))

\* TickMs pass and the interval of every running timer fires: first, then the other
advance(w, first) ==
  LET second == IF first = "main" THEN "parlay" ELSE "main"
  IN  tick(tick(advanceClock(w, TickMs), first), second)

\* a paused timer has been paused for less than MaxPausedMs
ClockOpen ==
  /\ DOMAIN timers # {}
  /\ \A k \in DOMAIN timers :
       timers[k].state = "PAUSED" => timers[k].pausedFor < MaxPausedMs

Advance(limit) ==
  /\ Open(limit)
  /\ ClockOpen
  /\ \E first \in {"main", "parlay"} : Becomes(advance(World, first))

----------------------------------------------------------------------------
(* Scenarios: worlds reached from createGame by the commands of a game.    *)

\* GameStore.createGame(hostName): the default configuration
DefaultConfig ==
  [totalRounds |-> DefaultTotalRounds, roundDurations |-> DefaultRoundDurations]

\* GameStore.createGame(hostName, config) with a five-round configuration
FiveRoundConfig ==
  [totalRounds |-> 5,
   roundDurations |-> <<300000, 240000, 180000, 120000, 60000>>]

ZeroRandom(n) == [i \in 1..(n - 1) |-> 0]

\* the moves of a scenario
Move(kind, roomId, voter, candidate) ==
  [kind |-> kind, roomId |-> roomId, voter |-> voter, candidate |-> candidate]

Join == Move("join", "null", 0, 0)

\* the host's connection is associated with the game
Subscribe == Move("subscribe", "null", 0, 0)

LockTheRoom == Move("lockRoom", "null", 0, 0)

SelectDeck == Move("selectRoles", "null", 0, 0)

Confirm == Move("confirmRoles", "null", 0, 0)

Start == Move("startGame", "null", 0, 0)

\* the voter-th member of the room votes for its candidate-th member
Vote(roomId, voter, candidate) == Move("nominateLeader", roomId, voter, candidate)

\* the last member of the room votes to usurp in favour of themselves
Revote(roomId) == Move("voteUsurp", roomId, 0, 0)

\* the leader of the room selects its first member who is not the leader
Hostage(roomId) == Move("selectHostage", roomId, 0, 0)

\* the leader of the room selects the player hostageId
Select(roomId, hostageId) == Move("selectHostage", roomId, 0, hostageId)

Lock(roomId) == Move("lockHostages", roomId, 0, 0)

\* the parlay runs out
Parlay == Move("parlay", "null", 0, 0)

\* the first member of the room who is not its leader
firstHostage(w, roomId) ==
  LET room == w.game.rooms[roomId]
  IN  Head(SelectSeq(room.players, LAMBDA p : p # room.leaderId))

\* one move of a scenario, sent by the player the move is about
play(w, move) ==
  LET hostId == w.game.hostId
      room == w.game.rooms[move.roomId]
  IN  CASE move.kind = "join" -> joinGame(w)
        [] move.kind = "subscribe" -> handleConnectMessage(w, hostId)
        [] move.kind = "lockRoom" -> lockRoom(w, hostId)
        [] move.kind = "selectRoles" -> selectRoles(w, hostId, Deck(MinPlayerCount))
        [] move.kind = "confirmRoles" ->
             confirmRoles(w, hostId, ZeroRandom(MinPlayerCount),
                          ZeroRandom(MinPlayerCount))
        [] move.kind = "startGame" -> startGame(w, hostId)
        [] move.kind = "nominateLeader" ->
             commandNominateLeader(w, room.players[move.voter], move.roomId,
                                   room.players[move.candidate], 0)
        [] move.kind = "voteUsurp" ->
             commandVoteUsurp(w, room.players[Len(room.players)], move.roomId,
                              room.players[Len(room.players)])
        [] move.kind = "selectHostage" ->
             commandSelectHostage(w, room.leaderId, move.roomId,
                                  IF move.candidate = Null
                                  THEN firstHostage(w, move.roomId)
                                  ELSE move.candidate)
        [] move.kind = "lockHostages" ->
             commandLockHostages(w, room.leaderId, move.roomId)
        [] move.kind = "parlay" -> advance(w, "parlay")

\* the world after the moves, taken in order: the first half, then the rest
RECURSIVE run(_, _)
run(w, moves) ==
  IF ~w.game.inStore \/ moves = <<>> THEN w
  ELSE IF Len(moves) = 1 THEN play(w, moves[1])
  ELSE LET half == Len(moves) \div 2
       IN  run(run(w, SubSeq(moves, 1, half)),
               SubSeq(moves, half + 1, Len(moves)))

Times(move, n) == [i \in 1..n |-> move]

\* six players, the host's connection subscribed, room locked, deck chosen,
\* roles confirmed and the game started
SetupMoves ==
  Times(Join, MinPlayerCount - 1)
    \o <<Subscribe, LockTheRoom, SelectDeck, Confirm, Start>>

\* every member votes for the first member of the room
ElectFirst(roomId) == <<Vote(roomId, 1, 1), Vote(roomId, 2, 1), Vote(roomId, 3, 1)>>

\* every member votes for themselves: a tie
VoteTie(roomId) == <<Vote(roomId, 1, 1), Vote(roomId, 2, 2), Vote(roomId, 3, 3)>>

\* each leader selects a hostage of their room and locks; the parlay runs out
RoundMoves ==
  <<Hostage("ROOM_A"), Hostage("ROOM_B"), Lock("ROOM_A"), Lock("ROOM_B"), Parlay>>

RECURSIVE Rounds(_)
Rounds(n) == IF n = 0 THEN <<>> ELSE RoundMoves \o Rounds(n - 1)

NewWorld(config) == createGame(config.totalRounds, config.roundDurations, FALSE)

\* round 1, no leaders yet
StartedWorld(config) == run(NewWorld(config), SetupMoves)

\* round 1: room B has elected its leader, room A has tied twice
TwoTiesWorld ==
  run(NewWorld(DefaultConfig),
      SetupMoves \o ElectFirst("ROOM_B") \o VoteTie("ROOM_A") \o VoteTie("ROOM_A"))

\* round 1 with both leaders elected and the round timer running
LeadersMoves == SetupMoves \o ElectFirst("ROOM_A") \o ElectFirst("ROOM_B")

LeadersWorld(config) == run(NewWorld(config), LeadersMoves)

\* the world at the start of round k (for k = 1: once both leaders are elected)
RoundWorld(config, k) == run(NewWorld(config), LeadersMoves \o Rounds(k - 1))

Configs == {DefaultConfig, FiveRoundConfig}

----------------------------------------------------------------------------
(* Elections: round 1, room A polling after two ties.                      *)

InitElection == Starts(TwoTiesWorld)

ElectionLimit == TwoTiesWorld.bus.sequenceNumber + MaxElectionEvents

NextElection ==
  \/ NominateLeader(ElectionLimit)
  \/ InitiateNewLeaderVote(ElectionLimit)
  \/ VoteUsurp(ElectionLimit)
  \/ Abdicate(ElectionLimit)

SpecElection == InitElection /\ [][NextElection]_vars

----------------------------------------------------------------------------
(* Rounds: hostage selection, parlay and exchange, from the start of any   *)
(* round of a three-round or a five-round game.                            *)

\* round k, and the leader of room B has selected hostageId and locked
LockedWorld(config, k, hostageId) ==
  run(NewWorld(config),
      LeadersMoves \o Rounds(k - 1)
        \o <<Select("ROOM_B", hostageId), Lock("ROOM_B")>>)

InitRounds ==
  \E c \in Configs : \E k \in 1..c.totalRounds, hostageId \in 1..MinPlayerCount :
    Starts(LockedWorld(c, k, hostageId))

\* the number of events published when a behaviour of the rounds begins in round k
RoundStarts ==
  [c \in Configs |->
     [k \in 1..c.totalRounds |-> RoundWorld(c, k).bus.sequenceNumber + 2]]

\* at most MaxRoundEvents events are published before a further command is taken
RoundLimit ==
  LET c == [totalRounds |-> game.config.totalRounds,
            roundDurations |-> game.config.roundDurations]
      begun == {k \in 1..c.totalRounds : RoundStarts[c][k] <= bus.sequenceNumber}
  IN  Max({RoundStarts[c][k] : k \in begun}) + MaxRoundEvents

NextRounds ==
  \/ SelectHostage(RoundLimit)
  \/ LockHostages(RoundLimit)
  \/ Advance(RoundLimit)

SpecRounds == InitRounds /\ [][NextRounds]_vars

----------------------------------------------------------------------------
(* Resolution: the last exchange of a three-round or a five-round game has *)
(* moved the game to RESOLUTION.                                           *)

ResolutionWorld(config) ==
  run(NewWorld(config), LeadersMoves \o Rounds(config.totalRounds))

InitResolution == \E c \in Configs : Starts(ResolutionWorld(c))

ResolutionStarts == [c \in Configs |-> ResolutionWorld(c).bus.sequenceNumber]

ResolutionLimit ==
  ResolutionStarts[[totalRounds |-> game.config.totalRounds,
                    roundDurations |-> game.config.roundDurations]]
    + MaxResolutionEvents

NextResolution ==
  \/ SelectHostage(ResolutionLimit)
  \/ LockHostages(ResolutionLimit)

\* the timers are the server's own steps: an interval that can fire does fire
SpecResolution ==
  InitResolution /\ [][NextResolution]_vars /\ WF_vars(Advance(ResolutionLimit))

----------------------------------------------------------------------------
(* The journal at its capacity: round 1 after two ties in room A, and the   *)
(* last member of room B has voted again and again to usurp in favour of   *)
(* themselves, one VOTE_CAST event each time.                              *)

\* two events short of the capacity of the journal
JournalWorld ==
  run(TwoTiesWorld,
      Times(Revote("ROOM_B"), (MaxEventLog - 2) - TwoTiesWorld.bus.sequenceNumber))

InitJournal == Starts(JournalWorld)

JournalLimit == MaxEventLog + MaxJournalEvents

NextJournal ==
  \/ NominateLeader(JournalLimit)
  \/ InitiateNewLeaderVote(JournalLimit)
  \/ VoteUsurp(JournalLimit)
  \/ Abdicate(JournalLimit)

SpecJournal == InitJournal /\ [][NextJournal]_vars

----------------------------------------------------------------------------
(* The lobby at the limits of the player count: one player short of the    *)
(* minimum, or at the maximum; players join and leave and lock the room.   *)

LobbyWorld(playerCount) ==
  run(NewWorld(DefaultConfig), Times(Join, playerCount - 1))

LobbySizes == {MinPlayerCount - 1, MaxPlayerCount}

InitLobby == \E playerCount \in LobbySizes : Starts(LobbyWorld(playerCount))

\* the number of players the lobby of this behaviour began with
LobbyStart == Max({n \in LobbySizes : n <= nextId - 1})

JoinLobby ==
  /\ nextId - 1 < LobbyStart + MaxLobbyJoins
  /\ Becomes(joinGame(World))

NextLobby ==
  \/ JoinLobby
  \/ LeaveGame
  \/ LockRoom

SpecLobby == InitLobby /\ [][NextLobby]_vars

----------------------------------------------------------------------------
(* Ignition of the round-1 timer: room B has its leader, room A has tied   *)
(* twice and two of its three members have voted for its first member; the *)
(* leader of room B has selected and locked a hostage for room A and has   *)
(* selected a hostage for room B.                                          *)

IgnitionWorld ==
  LET w == run(TwoTiesWorld, <<Vote("ROOM_A", 1, 1), Vote("ROOM_A", 2, 1)>>)
      leaderB == w.game.rooms["ROOM_B"].leaderId
      w1 == commandSelectHostage(w, leaderB, "ROOM_A", firstHostage(w, "ROOM_A"))
      w2 == commandLockHostages(w1, leaderB, "ROOM_A")
  IN  commandSelectHostage(w2, leaderB, "ROOM_B", firstHostage(w2, "ROOM_B"))

InitIgnition == Starts(IgnitionWorld)

\* commands are taken while fewer than MaxIgnitionEvents events are published
IgnitionLimit == IgnitionWorld.bus.sequenceNumber + MaxIgnitionEvents

\* the clock is observed while fewer than MaxIgnitionClockEvents are published
IgnitionClockLimit == IgnitionWorld.bus.sequenceNumber + MaxIgnitionClockEvents

NextIgnition ==
  \/ NominateLeader(IgnitionLimit)
  \/ InitiateNewLeaderVote(IgnitionLimit)
  \/ VoteUsurp(IgnitionLimit)
  \/ Abdicate(IgnitionLimit)
  \/ SelectHostage(IgnitionLimit)
  \/ LockHostages(IgnitionLimit)
  \/ Advance(IgnitionClockLimit)

SpecIgnition == InitIgnition /\ [][NextIgnition]_vars

----------------------------------------------------------------------------
(* A leader vote in a running round: round 2 of a three-round game, one    *)
(* tick into the round a member of room A has initiated a new leader vote  *)
(* and two of its three members have voted for its first member.           *)

PauseWorld ==
  LET w == advance(RoundWorld(DefaultConfig, 2), "main")
      w1 == commandInitiateNewLeaderVote(w, w.game.rooms["ROOM_A"].players[1],
                                         "ROOM_A")
  IN  run(w1, <<Vote("ROOM_A", 1, 1), Vote("ROOM_A", 2, 1)>>)

InitPause == Starts(PauseWorld)

\* commands are taken while fewer than MaxPauseEvents events are published
PauseLimit == PauseWorld.bus.sequenceNumber + MaxPauseEvents

\* the clock is observed while fewer than MaxPauseClockEvents are published
PauseClockLimit == PauseWorld.bus.sequenceNumber + MaxPauseClockEvents

NextPause ==
  \/ NominateLeader(PauseLimit)
  \/ InitiateNewLeaderVote(PauseLimit)
  \/ Advance(PauseClockLimit)

SpecPause == InitPause /\ [][NextPause]_vars

----------------------------------------------------------------------------
(* Hostages: round 1 of a game of HostagePlayers players, both leaders     *)
(* elected; two hostages are required of each room.                        *)

\* every member of the room votes for its first member
ElectAll(w, roomId) ==
  run(w, [i \in 1..Len(w.game.rooms[roomId].players) |-> Vote(roomId, i, 1)])

HostageWorld ==
  LET w == run(NewWorld(DefaultConfig),
               Times(Join, HostagePlayers - 1) \o <<Subscribe, LockTheRoom>>)
      hostId == w.game.hostId
      w1 == selectRoles(w, hostId, Deck(HostagePlayers))
      w2 == confirmRoles(w1, hostId, ZeroRandom(HostagePlayers),
                         ZeroRandom(HostagePlayers))
      w3 == startGame(w2, hostId)
  IN  ElectAll(ElectAll(w3, "ROOM_A"), "ROOM_B")

InitHostages == Starts(HostageWorld)

HostageLimit == HostageWorld.bus.sequenceNumber + MaxHostageEvents

\* GameController.leaveGame during a round
LeaveRound(limit) ==
  /\ Open(limit)
  /\ \E playerId \in PlayerIds : Becomes(leaveGame(World, playerId))

NextHostages ==
  \/ SelectHostage(HostageLimit)
  \/ LockHostages(HostageLimit)
  \/ LeaveRound(HostageLimit)

SpecHostages == InitHostages /\ [][NextHostages]_vars

----------------------------------------------------------------------------
(* Usurpation: round 1, both leaders elected by NOMINATE_LEADER votes, the *)
(* leader of room A by two votes against one.                              *)

UsurpWorld ==
  run(NewWorld(DefaultConfig),
      SetupMoves \o <<Vote("ROOM_A", 1, 1), Vote("ROOM_A", 2, 1), Vote("ROOM_A", 3, 2)>>
        \o ElectFirst("ROOM_B"))

InitUsurp == Starts(UsurpWorld)

UsurpLimit == UsurpWorld.bus.sequenceNumber + MaxUsurpEvents

NextUsurp == VoteUsurp(UsurpLimit) \/ Abdicate(UsurpLimit)

SpecUsurp == InitUsurp /\ [][NextUsurp]_vars

----------------------------------------------------------------------------
(* Roles: a lobby of MinPlayerCount players, with or without a buried      *)
(* card; players join and leave, the host locks, selects decks of several  *)
(* sizes, confirms and starts.                                             *)

RolesWorld(buryCard) ==
  run(createGame(DefaultTotalRounds, DefaultRoundDurations, buryCard),
      Times(Join, MinPlayerCount - 1))

InitRoles == \E buryCard \in BOOLEAN : Starts(RolesWorld(buryCard))

\* decks of one card less than the fewest players to one more than the most
RoleDecks == {Deck(n) : n \in (MinPlayerCount - 1)..(MaxRolePlayers + 1)}

JoinRoles ==
  /\ nextId <= MaxRolePlayers
  /\ Becomes(joinGame(World))

SelectRoleDeck ==
  \E playerId \in PlayerIds, roles \in RoleDecks :
    /\ roles # game.config.selectedRoles
    /\ Becomes(selectRoles(World, playerId, roles))

NextRoles ==
  \/ JoinRoles
  \/ LeaveGame
  \/ LockRoom
  \/ SelectRoleDeck
  \/ ConfirmRoles
  \/ StartGame

SpecRoles == InitRoles /\ [][NextRoles]_vars

----------------------------------------------------------------------------
(* The last round of a game whose deck was selected in the lobby before    *)
(* the last player joined: room B has locked its hostage, room A has       *)
(* selected one.                                                           *)

LateWorld ==
  LET w == run(NewWorld(DefaultConfig), Times(Join, MinPlayerCount - 1) \o <<Subscribe>>)
      hostId == w.game.hostId
      w1 == joinGame(selectRoles(w, hostId, Deck(MinPlayerCount)))
      w2 == confirmRoles(lockRoom(w1, hostId), hostId, ZeroRandom(MinPlayerCount),
                         ZeroRandom(MinPlayerCount + 1))
      w3 == ElectAll(ElectAll(startGame(w2, hostId), "ROOM_A"), "ROOM_B")
  IN  run(w3, Rounds(DefaultTotalRounds - 1)
                \o <<Hostage("ROOM_A"), Hostage("ROOM_B"), Lock("ROOM_B")>>)

InitLate == Starts(LateWorld)

LateLimit == LateWorld.bus.sequenceNumber + MaxLateEvents

NextLate ==
  \/ SelectHostage(LateLimit)
  \/ LockHostages(LateLimit)
  \/ Advance(LateLimit)

SpecLate == InitLate /\ [][NextLate]_vars

----------------------------------------------------------------------------
(* Connections: round 1 with both leaders elected; players connect, lose   *)
(* their connection and connect again while the round goes on.             *)

InitConnection == Starts(LeadersWorld(DefaultConfig))

ConnectionLimit == LeadersWorld(DefaultConfig).bus.sequenceNumber + MaxConnectionEvents

Reconnect ==
  /\ Len(bus.subscriptions) < MaxReconnects
  /\ \E playerId \in PlayerIds : Becomes(handleConnectMessage(World, playerId))

\* the socket of a connected player closes, or fails the heartbeat check
Disconnect ==
  \E playerId \in connections : Becomes(handleDisconnect(World, playerId))

NextConnection ==
  \/ Reconnect
  \/ Disconnect
  \/ SelectHostage(ConnectionLimit)
  \/ Advance(ConnectionLimit)

SpecConnection == InitConnection /\ [][NextConnection]_vars

----------------------------------------------------------------------------
(* The store: games are created and deleted beside the game of the world.  *)

InitStore == Starts(NewWorld(DefaultConfig))

\* colliding passes before generateRoomCode draws another code
CollisionCounts == {0, 1, MaxCodeAttempts - 1, MaxCodeAttempts}

\* the passes draw one code n times, and another code from then on
Draws ==
  {[i \in 1..(MaxCodeAttempts + 1) |-> IF i <= n THEN first ELSE second] :
     first \in RoomCodes, second \in RoomCodes, n \in CollisionCounts}

\* CREATE_GAME for a further game
CreateGame ==
  /\ store.nextGameId <= MaxGames
  /\ \E draws \in Draws : Becomes([World EXCEPT !.store = storeSet(@, draws)])

\* the last player of a further game leaves, or cleanupOldGames reaps it
DeleteGame ==
  \E gameId \in DOMAIN store.games \ {ThisGame} : Becomes(deleteGame(World, gameId))

NextStore ==
  \/ CreateGame
  \/ DeleteGame
  \/ LeaveGame

SpecStore == InitStore /\ [][NextStore]_vars

----------------------------------------------------------------------------
(* Hostage counts: the two helpers are called with a player count and a    *)
(* round number.                                                           *)

InitCounts ==
  \E playerCount \in MinPlayerCount..MaxPlayerCount, roundNumber \in 1..MaxRoundNumber :
    Starts([NewWorld(DefaultConfig) EXCEPT
              !.call = [NoCall EXCEPT !.playerCount = playerCount,
                                      !.roundNumber = roundNumber]])

\* the core helper and the validator's copy return
hostageCounts(w) ==
  [w EXCEPT !.call.returned =
     <<calculateHostageCount(w.call.playerCount, w.call.roundNumber),
       getHostageCount(w.call.playerCount, w.call.roundNumber)>>]

CountHostages == Becomes(hostageCounts(World))

NextCounts == CountHostages

SpecCounts == InitCounts /\ [][NextCounts]_vars

----------------------------------------------------------------------------
(* Pipelining: a lobby of six.  The transport emits a message event for    *)
(* every frame of a read in the same tick, so when the handler of one      *)
(* frame suspends at an await, the handler of the next frame of the same   *)
(* connection may run before the suspended command is resumed; whether it  *)
(* does is the client's and the transport's choice.                        *)

PipelineWorld == run(NewWorld(DefaultConfig), Times(Join, MinPlayerCount - 1) \o <<Subscribe>>)

InitPipeline == Starts(PipelineWorld)

PipelineLimit == PipelineWorld.bus.sequenceNumber + 3 + MinPlayerCount + MaxPipelineEvents

\* no command is suspended, or the frame comes from the connection whose
\* command is suspended
NextFrameOf(playerId) == pending.at = "none" \/ playerId = pending.playerId

BeginLockRoom ==
  /\ pending.at = "none"
  /\ \E playerId \in PlayerIds : Becomes(lockRoomBegin(World, playerId))

BeginConfirmRoles ==
  /\ pending.at = "none"
  /\ \E playerId \in PlayerIds : Becomes(confirmRolesBegin(World, playerId))

BeginStartGame ==
  /\ pending.at = "none"
  /\ \E playerId \in PlayerIds : Becomes(startGameBegin(World, playerId))

Resume ==
  /\ pending.at # "none"
  /\ \E roleRandom \in RandomValues(Len(game.config.selectedRoles)),
        roomRandom \in RandomValues(Cardinality(PlayerIds)) :
       Becomes(resume(World, roleRandom, roomRandom))

FrameSelectRoles ==
  \E playerId \in PlayerIds, roles \in Decks :
    /\ NextFrameOf(playerId)
    /\ roles # game.config.selectedRoles
    /\ Becomes(selectRoles(World, playerId, roles))

FrameVoteUsurp ==
  /\ Open(PipelineLimit)
  /\ \E playerId \in PlayerIds, roomId \in RoomIds, candidateId \in PlayerIds :
       /\ NextFrameOf(playerId)
       /\ Becomes(commandVoteUsurp(World, playerId, roomId, candidateId))

NextPipeline ==
  \/ BeginLockRoom
  \/ BeginConfirmRoles
  \/ BeginStartGame
  \/ Resume
  \/ FrameSelectRoles
  \/ FrameVoteUsurp

SpecPipeline == InitPipeline /\ [][NextPipeline]_vars

----------------------------------------------------------------------------
(* A leader vote in round 1: both leaders are elected and the round timer  *)
(* has run for one tick; a member of room A has initiated a new leader     *)
(* vote and two of its three members have voted for its first member.      *)

RestartWorld ==
  LET w == advance(LeadersWorld(DefaultConfig), "main")
      w1 == commandInitiateNewLeaderVote(w, w.game.rooms["ROOM_A"].players[1],
                                         "ROOM_A")
  IN  run(w1, <<Vote("ROOM_A", 1, 1), Vote("ROOM_A", 2, 1)>>)

InitRestart == Starts(RestartWorld)

RestartLimit == RestartWorld.bus.sequenceNumber + MaxRestartEvents

RestartClockLimit == RestartWorld.bus.sequenceNumber + MaxRestartClockEvents

NextRestart ==
  \/ NominateLeader(RestartLimit)
  \/ InitiateNewLeaderVote(RestartLimit)
  \/ Advance(RestartClockLimit)

SpecRestart == InitRestart /\ [][NextRestart]_vars

----------------------------------------------------------------------------
(* An abandoned game: round 1 with both leaders elected and the round      *)
(* timer running; three of the six players have left.  The last players    *)
(* leave while the clock goes on.                                          *)

RECURSIVE leaveAll(_, _)
leaveAll(w, playerIds) ==
  IF playerIds = {} THEN w
  ELSE leaveAll(leaveGame(w, Min(playerIds)), playerIds \ {Min(playerIds)})

AbandonWorld ==
  LET w == LeadersWorld(DefaultConfig)
      ids == DOMAIN w.game.players
  IN  leaveAll(w, {id \in ids : Cardinality({other \in ids : other > id}) >= 3})

InitAbandon == Starts(AbandonWorld)

AbandonLimit == AbandonWorld.bus.sequenceNumber + MaxAbandonEvents

NextAbandon ==
  \/ LeaveRound(AbandonLimit)
  \/ Advance(AbandonLimit)

SpecAbandon == InitAbandon /\ [][NextAbandon]_vars

----------------------------------------------------------------------------
(* Properties. *)

\* the events a step publishes
NewEvents ==
  {e \in Range(bus'.eventLog) : e.sequenceNumber > bus.sequenceNumber}

\* the events a step hands to the listener of subscription s
NewDeliveries(s) ==
  {e \in Range(bus'.delivered[s]) : e.sequenceNumber > bus.sequenceNumber}

RoundStatus(k) == <<"ROUND_1", "ROUND_2", "ROUND_3", "ROUND_4", "ROUND_5">>[k]

\* the phases of a game of totalRounds rounds, in order
Phases(totalRounds) ==
  <<"LOBBY", "LOCKED", "ROLE_SELECTION", "ROLE_DISTRIBUTION", "ROOM_ASSIGNMENT">>
    \o [k \in 1..totalRounds |-> RoundStatus(k)]
    \o <<"RESOLUTION", "FINISHED">>

\* C1: every event of the journal that carries a character id is a
\* ROLE_ASSIGNED event scoped to the one player that character is assigned to
\* (so no PUBLIC or room event carries one), and a subscription keyed to a
\* player is only ever handed the ROLE_ASSIGNED event of that player.
C1_RolePrivacy ==
  /\ \A i \in DOMAIN bus.eventLog :
       LET e == bus.eventLog[i]
       IN  e.payload.characterId # "none" =>
             /\ e.type = "ROLE_ASSIGNED"
             /\ e.scope.kind = "PLAYER"
             /\ e.scope.playerId \in DOMAIN game.roleAssignments
             /\ game.roleAssignments[e.scope.playerId] = e.payload.characterId
  /\ \A s \in DOMAIN bus.subscriptions :
       \A j \in DOMAIN bus.delivered[s] :
         LET e == bus.delivered[s][j]
         IN  (e.type = "ROLE_ASSIGNED" \/ e.payload.characterId # "none") =>
               e.scope = PlayerScope(bus.subscriptions[s].playerId)

\* a subscriber has been handed their own role while the journal holds the
\* role of another player
C1_Witness ==
  \E s \in DOMAIN bus.subscriptions :
    /\ \E j \in DOMAIN bus.delivered[s] : bus.delivered[s][j].type = "ROLE_ASSIGNED"
    /\ \E i \in DOMAIN bus.eventLog :
         /\ bus.eventLog[i].type = "ROLE_ASSIGNED"
         /\ bus.eventLog[i].scope.playerId # bus.subscriptions[s].playerId

\* C2: an event published on the scope of a room is handed only to the
\* subscriptions whose player is a member of that room when it is published.
C2_RoomDelivery ==
  [][\A s \in DOMAIN bus'.subscriptions :
       \A e \in NewDeliveries(s) :
         e.scope.kind \in RoomIds =>
           Includes(game.rooms[e.scope.kind].players,
                    bus'.subscriptions[s].playerId)]_vars

\* C3: the member lists of the two rooms are disjoint, hold no id twice, hold
\* only players of the game, and together are the players whose currentRoom
\* is set, each in the room that currentRoom and roomAssignments name.
C3_RoomsPartition ==
  LET a == game.rooms["ROOM_A"].players
      b == game.rooms["ROOM_B"].players
      placed == {p \in DOMAIN game.players : game.players[p].currentRoom # "null"}
  IN  /\ Range(a) \cap Range(b) = {}
      /\ Cardinality(Range(a)) = Len(a)
      /\ Cardinality(Range(b)) = Len(b)
      /\ Range(a) \cup Range(b) \subseteq DOMAIN game.players
      /\ Range(a) \cup Range(b) = placed
      /\ \A r \in RoomIds :
           \A p \in Range(game.rooms[r].players) :
             /\ game.players[p].currentRoom = r
             /\ p \in DOMAIN game.roomAssignments
             /\ game.roomAssignments[p] = r

\* C4: from ROUND_1 on, the sizes of the two rooms differ by at most 1.
C4_RoomsBalanced ==
  game.status \in RoundStatuses \cup {"RESOLUTION", "FINISHED"} =>
    Abs(Len(game.rooms["ROOM_A"].players) - Len(game.rooms["ROOM_B"].players)) <= 1

\* C5: the leader recorded for a room is a member of that room and has
\* isLeader set.
C5_LeaderIsMember ==
  \A r \in RoomIds :
    LET leaderId == game.leaders[r]
    IN  leaderId # Null =>
          /\ game.rooms[r].leaderId = leaderId
          /\ Includes(game.rooms[r].players, leaderId)
          /\ leaderId \in DOMAIN game.players
          /\ game.players[leaderId].isLeader

\* the step publishes, on the scope of room r, an event of this type that
\* names leaderId
Announces(r, type, method, leaderId) ==
  \E e \in NewEvents :
    /\ e.scope = RoomScope(r)
    /\ e.type = type
    /\ e.payload.info = method
    /\ e.payload.playerId = leaderId

C7_PhaseOrder ==
  LET phases == Phases(game.config.totalRounds)
      pos(status) == CHOOSE i \in DOMAIN phases : phases[i] = status
  IN  /\ game.status = IF console = <<>> THEN "LOBBY" ELSE console[Len(console)].to
      /\ \A i \in DOMAIN console :
           LET t == console[i]
           IN  /\ t.from = IF i = 1 THEN "LOBBY" ELSE console[i - 1].to
               /\ \E j \in DOMAIN transitions :
                    /\ t.from \in transitions[j].from
                    /\ t.to = transitions[j].to
                    /\ t.trigger = transitions[j].trigger
               /\ t.from \in Range(phases)
               /\ t.to \in Range(phases)
               /\ IF pos(t.from) >= pos("ROLE_DISTRIBUTION")
                  THEN pos(t.to) = pos(t.from) + 1
                  ELSE Abs(pos(t.to) - pos(t.from)) = 1
               /\ t.to = "RESOLUTION" =>
                    /\ t.trigger = "ROUND_COMPLETE"
                    /\ t.from = RoundStatus(game.config.totalRounds)

\* a five-round game has entered RESOLUTION from ROUND_5
C7_Witness ==
  /\ game.config.totalRounds = 5
  /\ game.status = "RESOLUTION"
  /\ console[Len(console)].from = "ROUND_5"

\* C8: a step that exchanges the hostages in ROUND_k leaves the game in
\* ROUND_k+1, started with currentRound = k + 1, when k < totalRounds, and in
\* RESOLUTION when k = totalRounds; no round is started twice.
C8_ExchangeAdvances ==
  [][(/\ game.status \in RoundStatuses
      /\ \E e \in NewEvents : e.type = "HOSTAGES_EXCHANGED") =>
       LET k == getCurrentRoundNumber(game.status)
       IN  /\ IF k < game.config.totalRounds
              THEN /\ game'.status = RoundStatus(k + 1)
                   /\ game'.currentRound = k + 1
                   /\ \E e \in NewEvents :
                        e.type = "ROUND_STARTED" /\ e.payload.n = k + 1
              ELSE game'.status = "RESOLUTION"
           /\ \A i, j \in DOMAIN bus'.eventLog :
                (/\ bus'.eventLog[i].type = "ROUND_STARTED"
                 /\ bus'.eventLog[j].type = "ROUND_STARTED"
                 /\ bus'.eventLog[i].payload.n = bus'.eventLog[j].payload.n) => i = j]_vars

\* the hostages of round 1 have been exchanged and round 2 is running
C8_Witness ==
  /\ game.status = "ROUND_2"
  /\ game.currentRound = 2
  /\ ~game.rooms["ROOM_B"].hostagesLocked
  /\ \E i \in DOMAIN bus.eventLog : bus.eventLog[i].type = "HOSTAGES_EXCHANGED"

\* C9: a game that enters RESOLUTION eventually is FINISHED, with a
\* GAME_FINISHED event in its journal.
C9_Finishes ==
  (game.status = "RESOLUTION") ~>
    (/\ game.status = "FINISHED"
     /\ \E i \in DOMAIN bus.eventLog : bus.eventLog[i].type = "GAME_FINISHED")

\* C10: the sequence numbers of the journal are 1..N: the i-th entry has
\* sequence number i.
C10_JournalFromOne ==
  \A i \in DOMAIN bus.eventLog : bus.eventLog[i].sequenceNumber = i

\* C10, amended: consecutive entries of the journal differ by exactly 1, the
\* last entry has the number of events published, and the journal holds the
\* last MaxEventLog events: it begins at 1 until more have been published.
C10_JournalConsecutive ==
  LET log == bus.eventLog
  IN  /\ \A i \in 1..(Len(log) - 1) :
           log[i + 1].sequenceNumber = log[i].sequenceNumber + 1
      /\ log # <<>> => log[Len(log)].sequenceNumber = bus.sequenceNumber
      /\ Len(log) = Min({bus.sequenceNumber, MaxEventLog})

\* more events have been published than the journal holds
C10_Witness ==
  /\ bus.sequenceNumber > MaxEventLog
  /\ Len(bus.eventLog) = MaxEventLog
  /\ bus.eventLog[1].sequenceNumber = bus.sequenceNumber - MaxEventLog + 1

\* the highest sequence number a subscription of this player was handed
Acknowledged(playerId) ==
  Max({0} \cup {e.sequenceNumber :
                  e \in UNION {Range(bus.delivered[s]) :
                                 s \in {t \in DOMAIN bus.subscriptions :
                                          bus.subscriptions[t].playerId = playerId}}})

\* the scopes a player is to receive: PUBLIC, their room, and their own
InScopeOf(playerId, scope) ==
  \/ scope = PublicScope
  \/ scope = PlayerScope(playerId)
  \/ /\ scope.kind \in RoomIds
     /\ playerId \in DOMAIN game.players
     /\ game.players[playerId].currentRoom = scope.kind

\* C11: a step that establishes a subscription for a player hands it, in
\* journal order, every journaled event after the last sequence number the
\* player acknowledged whose scope is PUBLIC, the player's room or the
\* player, and no other event, before any live event.
C11_ReplayOnSubscribe ==
  [][Len(bus'.subscriptions) = Len(bus.subscriptions) + 1 =>
       LET s == Len(bus'.subscriptions)
           playerId == bus'.subscriptions[s].playerId
       IN  bus'.delivered[s] =
             SelectSeq(getEventsSince(bus, Acknowledged(playerId)),
                       LAMBDA e : InScopeOf(playerId, e.scope))]_vars

RoundTimerIs(ts, state) == "main" \in DOMAIN ts /\ ts["main"].state = state

\* C14: while the round timer stays paused, no step decreases its remaining
\* value, in the timer manager or in the public state of the game.
C14_PausedKeepsRemaining ==
  [][(RoundTimerIs(timers, "PAUSED") /\ RoundTimerIs(timers', "PAUSED")) =>
       /\ timers'["main"].remaining >= timers["main"].remaining
       /\ game'.timer.remaining >= game.timer.remaining]_vars

\* the TIMER_UPDATE events of the journal, in order
TimerUpdates == SelectSeq(bus.eventLog, LAMBDA e : e.type = "TIMER_UPDATE")

\* the remaining value published when the present paused span began: the
\* first of the PAUSED updates that end the timer updates of the journal
RemainingAtPause ==
  LET updates == TimerUpdates
      first == Min({i \in DOMAIN updates :
                     \A j \in i..Len(updates) : updates[j].payload.info = "PAUSED"})
  IN  updates[first].payload.n

\* C15: in a round after the first, a step that resumes the round timer
\* resumes it from the remaining value it had when it was paused: from then
\* on it runs for exactly that long, so the round timer runs for its
\* duration in all, however long it was paused.
C15_ResumesFromPause ==
  [][(/\ game.currentRound > 1
      /\ RoundTimerIs(timers, "PAUSED")
      /\ RoundTimerIs(timers', "RUNNING")) =>
       /\ timers'["main"].duration = timers["main"].duration
       /\ timers'["main"].duration - timers'["main"].elapsed = RemainingAtPause
       /\ \E e \in NewEvents :
            /\ e.type = "TIMER_UPDATE"
            /\ e.payload.info = "RUNNING"
            /\ e.payload.n = RemainingAtPause]_vars

\* the player hostageId may be taken hostage by the sender of the command:
\* an existing player of the sender's room who is not a leader
Eligible(playerId, hostageId) ==
  /\ playerId \in DOMAIN game.players
  /\ hostageId \in DOMAIN game.players
  /\ game.players[hostageId].currentRoom = game.players[playerId].currentRoom
  /\ ~game.players[hostageId].isLeader

\* C16: a SELECT_HOSTAGE command adds its target to the hostageCandidates of
\* a room only if the target is an existing player, a member of the sender's
\* room and not a leader; with any other target not yet selected the command
\* is rejected and changes nothing.
C16_HostageTarget ==
  \A playerId \in IssuedIds, roomId \in RoomIds, hostageId \in 1..nextId :
    LET w == commandSelectHostage(World, playerId, roomId, hostageId)
        selected == Includes(game.rooms[roomId].hostageCandidates, hostageId)
    IN  (~selected /\ ~Eligible(playerId, hostageId)) => w = World

\* the hostage state of room roomId in world w
HostageState(w, roomId) ==
  <<w.game.rooms[roomId].hostageCandidates, w.game.rooms[roomId].hostagesLocked>>

\* C17: only the current leader of a room changes the hostage state of that
\* room: a SELECT_HOSTAGE or LOCK_HOSTAGES command that names room R and is
\* sent by anyone but leaders[R] leaves the hostageCandidates and
\* hostagesLocked of room R as they are.
C17_OwnRoomOnly ==
  \A playerId \in IssuedIds, roomId \in RoomIds :
    playerId # game.leaders[roomId] =>
      /\ HostageState(commandLockHostages(World, playerId, roomId), roomId)
           = HostageState(World, roomId)
      /\ \A hostageId \in IssuedIds :
           HostageState(commandSelectHostage(World, playerId, roomId, hostageId),
                        roomId)
             = HostageState(World, roomId)

\* the hostage-selection part of a round: the round timer has expired and
\* onRoundTimerExpired has paused the game
HostageSelection ==
  /\ game.status \in RoundStatuses
  /\ game.paused
  /\ "main" \notin DOMAIN timers

\* C18: SELECT_HOSTAGE and LOCK_HOSTAGES are accepted only in the
\* hostage-selection part of a round, after the round timer has expired;
\* while the round timer is running or has not been started they are
\* rejected and change nothing, so that no parlay or exchange begins.
C18_AfterTimerExpired ==
  ~HostageSelection =>
    \A playerId \in IssuedIds, roomId \in RoomIds :
      /\ commandLockHostages(World, playerId, roomId) = World
      /\ \A hostageId \in IssuedIds :
           commandSelectHostage(World, playerId, roomId, hostageId) = World

\* the number of hostages required of each room
RequiredHostages ==
  calculateHostageCount(Cardinality(DOMAIN game.players), game.currentRound)

\* a SELECT_HOSTAGE command: rejected if the target is not selected and the
\* limit is reached; sent by a leader for a room that is not locked, it
\* removes a target that is selected
SelectionToggles ==
  \A playerId \in IssuedIds, roomId \in RoomIds, hostageId \in 1..nextId :
    LET w == commandSelectHostage(World, playerId, roomId, hostageId)
        room == game.rooms[roomId]
    IN  /\ (/\ ~Includes(room.hostageCandidates, hostageId)
            /\ Len(room.hostageCandidates) = RequiredHostages) => w = World
        /\ (/\ isLeaderCommand(World, playerId)
            /\ Includes(room.hostageCandidates, hostageId)
            /\ ~room.hostagesLocked) =>
             w.game.rooms[roomId].hostageCandidates
               = Without(room.hostageCandidates, hostageId)

\* a LOCK_HOSTAGES command changes something only if the count is the
\* required one
LockNeedsCount ==
  \A playerId \in IssuedIds, roomId \in RoomIds :
    Len(game.rooms[roomId].hostageCandidates) # RequiredHostages =>
      commandLockHostages(World, playerId, roomId) = World

\* no room has more candidates than required, and a locked room has
\* exactly as many
WithinCount ==
  \A r \in RoomIds :
    /\ Len(game.rooms[r].hostageCandidates) <= RequiredHostages
    /\ game.rooms[r].hostagesLocked =>
         Len(game.rooms[r].hostageCandidates) = RequiredHostages

MajorityElected(w, roomId, votes) ==
  LET leaderId == CHOOSE c \in winners(votes) : TRUE
      oldLeaderId == game.rooms[roomId].leaderId
  IN  /\ w.game.rooms[roomId].leaderId = leaderId
      /\ w.game.leaders[roomId] = leaderId
      /\ w.game.players[leaderId].isLeader
      /\ \E e \in Range(getEventsSince(w.bus, bus.sequenceNumber)) :
           /\ e.type = "LEADER_ELECTED"
           /\ e.scope = RoomScope(roomId)
           /\ e.payload.info = "MAJORITY_VOTE"
           /\ e.payload.playerId = leaderId
      /\ (oldLeaderId # Null /\ oldLeaderId # leaderId
            /\ oldLeaderId \in DOMAIN w.game.players) =>
           /\ ~w.game.players[oldLeaderId].isLeader
           /\ w.game.players[oldLeaderId].canBeHostage

\* the votes, the tie count and the voting-active flag of the room are clear
PollCleared(w, roomId) ==
  /\ w.game.rooms[roomId].leaderVotes = EmptyMap
  /\ w.game.rooms[roomId].leaderVotingTieCount = 0
  /\ ~w.game.rooms[roomId].leaderVotingActive

\* C20: an accepted NOMINATE_LEADER command records the vote over the
\* voter's earlier one; the poll resolves exactly when the recorded votes
\* are as many as the members of the room; if then one candidate has
\* strictly the most votes, that candidate becomes the leader by
\* MAJORITY_VOTE, the previous leader (if another player) loses isLeader and
\* regains canBeHostage, and the votes, the tie count and the voting-active
\* flag are cleared.
C20_PollResolves ==
  \A voterId \in IssuedIds, roomId \in RoomIds, candidateId \in IssuedIds :
    \A randomIndex \in 0..MaxRandom :
      LET w == commandNominateLeader(World, voterId, roomId, candidateId,
                                     randomIndex)
          room == game.rooms[roomId]
          votes == Put(room.leaderVotes, voterId, candidateId)
          resolved == \E e \in Range(getEventsSince(w.bus, bus.sequenceNumber)) :
                        e.type = "LEADER_ELECTED"
      IN  w # World =>
            /\ resolved <=> Cardinality(DOMAIN votes) = Len(room.players)
            /\ ~resolved => w.game.rooms[roomId].leaderVotes = votes
            /\ (resolved /\ Cardinality(winners(votes)) = 1) =>
                 /\ MajorityElected(w, roomId, votes)
                 /\ PollCleared(w, roomId)

UsurpVotesCast(r) ==
  Len(SelectSeq(getEventsSince(bus, UsurpWorld.bus.sequenceNumber),
                LAMBDA e : e.type = "VOTE_CAST" /\ e.scope = RoomScope(r)))

\* C22: usurpation votes are counted apart from the votes of a leader poll:
\* a VOTE_USURP command usurps the leader of a room only if, with this vote,
\* at least floor(roomSize / 2) + 1 usurpation votes have been cast in the
\* room; the NOMINATE_LEADER votes that elected the leader do not count.
C22_UsurpVotesApart ==
  \A voterId \in IssuedIds, roomId \in RoomIds, candidateId \in IssuedIds :
    LET w == commandVoteUsurp(World, voterId, roomId, candidateId)
        usurped == \E e \in Range(getEventsSince(w.bus, bus.sequenceNumber)) :
                     e.type = "LEADER_USURPED"
    IN  usurped =>
          UsurpVotesCast(roomId) + 1 >= (Len(game.rooms[roomId].players) \div 2) + 1

\* the journal entries i..j hold no ROUND_STARTED: they are of one round
SameRound(i, j) ==
  \A k \in i..j : bus.eventLog[k].type # "ROUND_STARTED"

\* the order of the parlay events in the journal, and parlayActive
ParlayInOrder ==
  LET log == bus.eventLog
      parlay == {i \in DOMAIN log : log[i].type \in {"PARLAY_STARTED", "PARLAY_ENDED"}}
  IN  /\ \A i \in DOMAIN log :
           /\ log[i].type = "PARLAY_STARTED" =>
                \A r \in RoomIds :
                  \E j \in 1..(i - 1) :
                    /\ log[j].type = "HOSTAGES_LOCKED"
                    /\ log[j].scope = RoomScope(r)
                    /\ SameRound(j, i)
           /\ log[i].type = "PARLAY_ENDED" =>
                /\ \E j \in 1..(i - 1) :
                     log[j].type = "PARLAY_STARTED" /\ SameRound(j, i)
                /\ i + 2 \in DOMAIN log
                /\ log[i + 1].type = "HOSTAGES_EXCHANGED"
                /\ log[i + 2].type = "ROUND_ENDED"
           /\ log[i].type = "HOSTAGES_EXCHANGED" =>
                i > 1 /\ log[i - 1].type = "PARLAY_ENDED"
      /\ game.parlayActive <=>
           (parlay # {} /\ log[Max(parlay)].type = "PARLAY_STARTED")
      /\ game.parlayActive => bothRoomsLocked(game)

\* a step that ends the parlay is the expiry of the running parlay timer
EndsOnExpiry ==
  (\E e \in NewEvents : e.type \in {"PARLAY_ENDED", "HOSTAGES_EXCHANGED"}) =>
    /\ "parlay" \in DOMAIN timers
    /\ timers["parlay"].state = "RUNNING"
    /\ timers["parlay"].elapsed + TickMs >= ParlayDuration
    /\ game.parlayActive
    /\ bothRoomsLocked(game)

\* C23: the parlay starts only when both rooms have locked their hostages and
\* the hostages are exchanged only when the parlay timer expires: in the
\* journal HOSTAGES_LOCKED of both rooms comes before PARLAY_STARTED, then
\* PARLAY_ENDED, HOSTAGES_EXCHANGED and ROUND_ENDED, and parlayActive holds
\* exactly from PARLAY_STARTED to PARLAY_ENDED.
C23_ParlayOrder == []ParlayInOrder /\ [][EndsOnExpiry]_vars

\* a parlay has run out, the hostages are exchanged and the next round runs
C23_Witness ==
  /\ ~game.parlayActive
  /\ "parlay" \notin DOMAIN timers
  /\ game.currentRound > 1
  /\ \E i \in DOMAIN bus.eventLog : bus.eventLog[i].type = "PARLAY_ENDED"

\* after the step the player is a member of room to and of no other room,
\* by currentRoom, by the member lists and by roomAssignments, and has been
\* sent as a hostage
MovedTo(playerId, to) ==
  /\ playerId \in DOMAIN game'.players
  /\ game'.players[playerId].currentRoom = to
  /\ game'.players[playerId].wasSentAsHostage
  /\ Includes(game'.rooms[to].players, playerId)
  /\ ~Includes(game'.rooms[OtherRoom(to)].players, playerId)
  /\ playerId \in DOMAIN game'.roomAssignments
  /\ game'.roomAssignments[playerId] = to

\* the step leaves the player in the room they were in
StaysPut(playerId) ==
  /\ game'.players[playerId].currentRoom = game.players[playerId].currentRoom
  /\ \A r \in RoomIds :
       Includes(game'.rooms[r].players, playerId)
         <=> Includes(game.rooms[r].players, playerId)

\* the step exchanges exactly the hostage candidates of the two rooms
ExchangesCandidates ==
  LET fromA == Range(game.rooms["ROOM_A"].hostageCandidates)
      fromB == Range(game.rooms["ROOM_B"].hostageCandidates)
  IN  /\ \A p \in fromA : MovedTo(p, "ROOM_B")
      /\ \A p \in fromB : MovedTo(p, "ROOM_A")
      /\ \A p \in DOMAIN game.players \ (fromA \cup fromB) : StaysPut(p)
      /\ \A r \in RoomIds :
           /\ game'.rooms[r].hostageCandidates = <<>>
           /\ ~game'.rooms[r].hostagesLocked
      /\ ~game'.paused

\* C24: a hostage exchange moves exactly the locked candidates: those of
\* room A end as members of room B and those of room B as members of room A,
\* with currentRoom, the member lists and roomAssignments agreeing and
\* wasSentAsHostage set; every other player stays; afterwards both rooms
\* have no candidates and are not locked, and the game is not paused.
C24_ExchangeMovesCandidates ==
  [][(\E e \in NewEvents : e.type = "HOSTAGES_EXCHANGED") => ExchangesCandidates]_vars

\* SELECT_ROLES of the host with this deck is accepted
DeckAccepted(roles) ==
  LET w == selectRoles(World, game.hostId, roles)
  IN  w # World /\ w.game.config.selectedRoles = roles

\* how often the character occurs in the deck
TimesInDeck(character) ==
  Cardinality({i \in DOMAIN game.config.selectedRoles :
                 game.config.selectedRoles[i] = character})

\* how often the character is held: by a player, or as the buried card
TimesHeld(character) ==
  Cardinality({p \in DOMAIN game.roleAssignments :
                 game.roleAssignments[p] = character})
    + (IF game.buriedCard = character THEN 1 ELSE 0)

\* C25: with buryCard a deck is accepted exactly when it holds
\* playerCount + 1 characters, and once the roles are distributed one of them
\* is the buried card and every player holds one of the others; without
\* buryCard the accepted deck holds exactly playerCount characters and the
\* buried card stays null.
C25_BuriedCard ==
  LET playerCount == Cardinality(DOMAIN game.players)
      expected == IF game.config.buryCard THEN playerCount + 1 ELSE playerCount
      distributed == game.roleAssignments # EmptyMap
  IN  /\ game.inStore =>
           \A roles \in RoleDecks : DeckAccepted(roles) <=> Len(roles) = expected
      /\ (distributed /\ game.config.buryCard) =>
           /\ game.buriedCard # "null"
           /\ \A c \in DOMAIN Catalogue : TimesHeld(c) = TimesInDeck(c)
           /\ \A p \in DOMAIN game.roleAssignments :
                game.roleAssignments[p] \in DOMAIN Catalogue
      /\ ~game.config.buryCard => game.buriedCard = "null"

\* C26: in RESOLUTION every player of the game has a room and a role.
C26_ResolvedPlayersComplete ==
  game.status = "RESOLUTION" =>
    \A p \in DOMAIN game.players :
      /\ game.players[p].currentRoom \in RoomIds
      /\ game.players[p].currentRole \notin {"null", "undefined"}

\* C27: CONFIRM_ROLES takes the game out of ROLE_SELECTION only if the deck
\* stored in config.selectedRoles passes the role-configuration validation
\* against the players the game has at that moment; otherwise the command
\* is rejected and changes nothing.
C27_ConfirmValidates ==
  (/\ game.inStore
   /\ game.status = "ROLE_SELECTION"
   /\ ~validateRoleConfiguration(game.config.selectedRoles,
                                 Cardinality(DOMAIN game.players),
                                 game.config.buryCard)) =>
    \A playerId \in IssuedIds :
      \A roleRandom \in RandomValues(Len(game.config.selectedRoles)),
         roomRandom \in RandomValues(Cardinality(PlayerIds)) :
        confirmRoles(World, playerId, roleRandom, roomRandom) = World

\* C28: outside the rounds (before the game is started, in RESOLUTION or
\* FINISHED) the round commands NOMINATE_LEADER, VOTE_USURP,
\* INITIATE_NEW_LEADER_VOTE, SELECT_HOSTAGE and LOCK_HOSTAGES are rejected
\* and change nothing.
C28_RoundCommandsInRounds ==
  game.status \notin RoundStatuses =>
    \A playerId \in IssuedIds, roomId \in RoomIds :
      /\ commandInitiateNewLeaderVote(World, playerId, roomId) = World
      /\ commandLockHostages(World, playerId, roomId) = World
      /\ \A targetId \in IssuedIds :
           /\ commandNominateLeader(World, playerId, roomId, targetId, 0) = World
           /\ commandVoteUsurp(World, playerId, roomId, targetId) = World
           /\ commandSelectHostage(World, playerId, roomId, targetId) = World


\* the conditions under which INITIATE_NEW_LEADER_VOTE is to be accepted,
\* without the round
RevoteAllowed(playerId, roomId) ==
  /\ game.inStore
  /\ Includes(game.rooms[roomId].players, playerId)
  /\ game.rooms[roomId].leaderId # Null
  /\ ~game.rooms[roomId].leaderVotingActive

\* what an accepted INITIATE_NEW_LEADER_VOTE leaves behind in w
RevoteStarted(w, roomId) ==
  /\ "main" \in DOMAIN timers => w.timers["main"].state = "PAUSED"
  /\ w.game.rooms[roomId].leaderVotingActive
  /\ w.game.rooms[roomId].leaderVotes = EmptyMap
  /\ w.game.rooms[roomId].leaderVotingTieCount = 0
  /\ \E i \in DOMAIN w.bus.eventLog :
       /\ w.bus.eventLog[i].sequenceNumber > bus.sequenceNumber
       /\ w.bus.eventLog[i].type = "LEADER_ELECTED"
       /\ w.bus.eventLog[i].scope = RoomScope(roomId)

\* C29: INITIATE_NEW_LEADER_VOTE is accepted only in a round k > 1, from a
\* member of the named room that has a leader and no vote active; accepted,
\* it pauses the round timer, opens the vote, clears the room's votes and tie
\* count and publishes a notice on the room scope; otherwise it is rejected
\* and changes nothing.
C29_RevoteOnlyAfterRoundOne ==
  \A playerId \in IssuedIds, roomId \in RoomIds :
    LET w == commandInitiateNewLeaderVote(World, playerId, roomId)
    IN  IF /\ game.status \in RoundStatuses \ {"ROUND_1"}
           /\ RevoteAllowed(playerId, roomId)
        THEN RevoteStarted(w, roomId)
        ELSE w = World


\* what the loss of playerId's connection is to leave behind in w
MarkedDisconnected(w, playerId) ==
  /\ playerId \in DOMAIN w.game.players
  /\ w.game.players[playerId].connectionStatus = "DISCONNECTED"
  /\ \E i \in DOMAIN w.bus.eventLog :
       /\ w.bus.eventLog[i].sequenceNumber > bus.sequenceNumber
       /\ w.bus.eventLog[i].type = "PLAYER_DISCONNECTED"

\* the phase, the rooms, the leaders and the timers of w are those of now
PhaseUntouched(w) ==
  /\ w.game.status = game.status
  /\ w.game.currentRound = game.currentRound
  /\ w.game.rooms = game.rooms
  /\ w.game.leaders = game.leaders
  /\ w.timers = timers

\* C30: when the connection of a player of the game is lost, the player is
\* kept in the game with connection status DISCONNECTED, PLAYER_DISCONNECTED
\* is published, and the phase, rooms, leaders and timers are not changed.
C30_DisconnectMarksPlayer ==
  \A playerId \in connections \cap PlayerIds :
    LET w == handleDisconnect(World, playerId)
    IN  MarkedDisconnected(w, playerId) /\ PhaseUntouched(w)


\* the arguments of a lookup: codes in either case
LookupCodes ==
  [1..CodeLength -> {chars[i] : i \in 1..CodeChars} \cup {LowerCase[i] : i \in 1..CodeChars}]

LiveGames == DOMAIN store.games

\* the code of a deleted game is absent from the index and is drawn again
CodeFreed(gameId) ==
  LET code == store.games[gameId]
      st == storeDelete(store, gameId)
  IN  /\ getByCode(st, code) = Null
      /\ generateRoomCode(st, [i \in 1..(MaxCodeAttempts + 1) |-> code], 0) = code

\* C31: no two live games share a room code; a lookup by code, in either
\* case, returns game g exactly when g is live and its code is the upper-cased
\* argument; and deleting a game frees its code for reuse.
C31_CodeIndexAgrees ==
  /\ \A g1 \in LiveGames, g2 \in LiveGames :
       g1 # g2 => store.games[g1] # store.games[g2]
  /\ \A code \in LookupCodes, gameId \in 1..(store.nextGameId - 1) :
       getByCode(store, code) = gameId
         <=> gameId \in LiveGames /\ store.games[gameId] = toUpperCase(code)
  /\ \A gameId \in LiveGames : CodeFreed(gameId)
  /\ game.inStore <=> ThisGame \in LiveGames

\* two games are live, one created after another game was deleted
C31_Witness ==
  /\ Cardinality(LiveGames) >= 2
  /\ \E gameId \in 1..(store.nextGameId - 1) :
       gameId \notin LiveGames /\ \E later \in LiveGames : later > gameId


\* the event the expiry callback of the timer key publishes
ExpiryEvent(key) == IF key = "main" THEN "GAME_PAUSED" ELSE "PARLAY_ENDED"

\* the expiry callbacks of the timer key that a step runs
Fired(key) == {e \in NewEvents : e.type = ExpiryEvent(key)}

\* a callback runs once, for a timer that is in the map and RUNNING and has
\* run out, and the step takes that timer out of the map
FiresOnceWhileRunning ==
  \A key \in {"main", "parlay"} :
    Fired(key) # {} =>
      /\ Cardinality(Fired(key)) = 1
      /\ key \in DOMAIN timers
      /\ timers[key].state = "RUNNING"
      /\ timers[key].elapsed + TickMs >= timers[key].duration
      /\ key \notin DOMAIN timers' \/ timers'[key].elapsed = 0

\* a tick for a key whose timer is stopped (out of the map) changes nothing
LateTickIgnored ==
  \A key \in {"main", "parlay"} :
    key \notin DOMAIN timers => tick(World, key) = World

\* C32: a stopped or replaced timer never fires: a tick after the stop
\* changes neither the timers nor the game, and the expiry callback of a
\* started timer runs at most once, while that timer is running.
C32_StoppedTimerSilent == []LateTickIgnored /\ [][FiresOnceWhileRunning]_vars

\* the round timer has run out and fired, and is out of the map
C32_Witness ==
  /\ game.paused
  /\ "main" \notin DOMAIN timers
  /\ bus.eventLog[Len(bus.eventLog)].type = "GAME_PAUSED"


\* the table H: hostages by size of game, in rounds 1, 2 and 3 or later
H ==
  [small |-> <<1, 1, 1>>, medium |-> <<2, 1, 1>>, large |-> <<3, 2, 1>>]

SizeOfGame(playerCount) ==
  IF playerCount <= 10 THEN "small"
  ELSE IF playerCount <= 21 THEN "medium"
  ELSE "large"

\* C33: for 6 to 30 players and rounds 1 to 5 the hostage count is that of
\* the table H (1 for 6-10 players; 2 then 1 for 11-21; 3, 2, 1 for 22 or
\* more), and the core helper and the action validator's copy agree.
C33_HostageTable ==
  call.returned # <<>> =>
    /\ call.returned[1] = H[SizeOfGame(call.playerCount)][Min({call.roundNumber, 3})]
    /\ call.returned[2] = call.returned[1]

\* a large game in round 2: both helpers return 2
C33_Witness ==
  /\ call.playerCount >= 22
  /\ call.roundNumber = 2
  /\ call.returned = <<2, 2>>


\* the leaders in place, in their own rooms, as the step begins
LeadersInPlace ==
  {playerId \in DOMAIN game.players :
     \E r \in RoomIds : /\ game.rooms[r].leaderId = playerId
                        /\ Includes(game.rooms[r].players, playerId)}

\* C34: leaders can never be hostages: a player who is the leader of a room
\* when the hostage exchange runs is not moved to the other room by it.
C34_LeadersNeverExchanged ==
  [][(\E e \in NewEvents : e.type = "HOSTAGES_EXCHANGED") =>
       \A playerId \in LeadersInPlace : StaysPut(playerId)]_vars


\* the round of the phase is the current round
RoundOfPhase ==
  game.status \in RoundStatuses =>
    game.currentRound = getCurrentRoundNumber(game.status)

\* the game is not between the two transitions of LOCK_ROOM, nor between the
\* steps of CONFIRM_ROLES
NotMidCommand ==
  /\ game.status # "LOCKED"
  /\ game.status = "ROOM_ASSIGNMENT" =>
       \E r \in RoomIds : game.rooms[r].players # <<>>

\* C35: commands are atomic: no command is processed between the two
\* transitions of LOCK_ROOM, between the steps of CONFIRM_ROLES, or between
\* the transition into ROUND_k and the start of round k; in every state a
\* command observes, phase ROUND_k implies currentRound = k.  (A step that
\* leaves pending as it is processes a command; the others resume one.)
C35_CommandsAtomic ==
  [][pending' = pending => NotMidCommand /\ RoundOfPhase]_vars


\* C36: in a round k > 1 the round timer is RUNNING only while no room has a
\* leader vote in progress and no parlay is active.
C36_RunsOnlyOutsideVotes ==
  (/\ game.status \in RoundStatuses
   /\ game.currentRound > 1
   /\ "main" \in DOMAIN timers
   /\ timers["main"].state = "RUNNING")
    => /\ \A r \in RoomIds : ~game.rooms[r].leaderVotingActive
       /\ ~game.parlayActive


\* the journal positions of the current round, from its ROUND_STARTED on
ThisRound ==
  LET log == bus.eventLog
      begun == {i \in DOMAIN log : log[i].type = "ROUND_STARTED"}
  IN  IF begun = {} THEN {} ELSE {i \in DOMAIN log : i >= Max(begun)}

\* the times the round timer was started in the current round: by startRound
\* in a round after the first, by electLeader in round 1
TimerStarts ==
  {i \in ThisRound :
     \/ bus.eventLog[i].type = "ROUND_STARTED" /\ bus.eventLog[i].payload.n > 1
     \/ /\ bus.eventLog[i].type = "GAME_RESUMED"
        /\ bus.eventLog[i].payload.info = "Both leaders elected"}

\* within a round the remaining time of the round timer does not grow
RemainingShrinks ==
  (/\ game'.currentRound = game.currentRound
   /\ "main" \in DOMAIN timers
   /\ "main" \in DOMAIN timers')
    => timers'["main"].remaining <= timers["main"].remaining

\* C37: within a round the round timer is started at most once, and once
\* started its remaining time never increases: no sequence of commands
\* restarts it from the full duration of the round.
C37_StartedOncePerRound ==
  [](Cardinality(TimerStarts) <= 1) /\ [][RemainingShrinks]_vars


\* the round timer of the current round has been started: it is in the timer
\* map (RUNNING or PAUSED), or it has run out in this round
RoundTimerStarted ==
  \/ "main" \in DOMAIN timers
  \/ \E i \in ThisRound :
       /\ bus.eventLog[i].type = "GAME_PAUSED"
       /\ bus.eventLog[i].payload.info = "Hostage selection phase"

\* C38: in round 1, in every state in which both rooms have a leader,
\* whichever way each became leader, the round timer has been started.
C38_LeadersStartTimer ==
  (game.status = "ROUND_1" /\ bothLeadersElected(game)) => RoundTimerStarted


\* the PARLAY_STARTED events of the current round
ParlayStarts == {i \in ThisRound : bus.eventLog[i].type = "PARLAY_STARTED"}

\* a step that keeps the parlay timer does not set its clock back
ParlayRunsOn ==
  ("parlay" \in DOMAIN timers /\ "parlay" \in DOMAIN timers')
    => timers'["parlay"].elapsed >= timers["parlay"].elapsed

\* C39: within one round the parlay is started at most once: PARLAY_STARTED
\* is published once and the parlay timer is started once; a LOCK_HOSTAGES for
\* a room whose hostages are locked does not restart the parlay timer.
C39_ParlayOncePerRound ==
  [](Cardinality(ParlayStarts) <= 1) /\ [][ParlayRunsOn]_vars


\* a step leaves the journal and the state of the game as they are
GameAtRest == bus' = bus /\ game' = game

\* C40: after the game has been removed from the store none of its timers
\* ticks or fires and no further event is appended to its journal or state.
C40_RemovedGameAtRest == [][~game.inStore => GameAtRest]_vars

====
